---- MODULE Spec2Model ----
(***************************************************************************)
(* A model of the sfs spectrum engine: the strided array and its shape     *)
(* arithmetic, the spectrum transforms (fold, marginalize, project), the   *)
(* hypergeometric projection weights, and the site accumulation pipeline   *)
(* (site reader builder, Reader::read_site, Runner::run).                  *)
(*                                                                         *)
(* Spectrum cells are f64 in the source.  The model computes them as exact *)
(* rationals <<numerator, denominator>> in lowest terms; flat positions    *)
(* are 0-based as in the source, sequences are 1-based, so data[flat + 1]  *)
(* is the cell at flat position flat.                                      *)
(***************************************************************************)
EXTENDS Integers, Sequences, FiniteSets, TLC

\* Largest extent of one axis of the spectra the transforms are applied to.
MaxDim == 3

\* Largest number of axes of the spectra the transforms are applied to.
MaxAxes == 3

(***************************************************************************)
(* Exact rational arithmetic standing in for f64.                          *)
(***************************************************************************)
RECURSIVE GCD(_, _)
GCD(a, b) == IF b = 0 THEN a ELSE GCD(b, a % b)

Abs(x) == IF x < 0 THEN -x ELSE x

Rat(n, d) ==
    LET g == GCD(Abs(n), Abs(d))
        s == IF d < 0 THEN -1 ELSE 1
    IN  IF n = 0 THEN <<0, 1>> ELSE <<(s * n) \div g, (s * d) \div g>>

Zero == Rat(0, 1)
One == Rat(1, 1)
Half == Rat(1, 2)
RInt(x) == Rat(x, 1)
RAdd(x, y) == Rat(x[1] * y[2] + y[1] * x[2], x[2] * y[2])
RMul(x, y) == Rat(x[1] * y[1], x[2] * y[2])

RECURSIVE RSumFrom(_, _)
RSumFrom(data, i) ==
    IF i > Len(data) THEN Zero ELSE RAdd(data[i], RSumFrom(data, i + 1))

\* Spectrum::sum: the sum of all cells.
SpectrumSum(data) == RSumFrom(data, 1)

(***************************************************************************)
(* Shape (core/src/array/shape.rs).                                        *)
(***************************************************************************)
RECURSIVE ProductFrom(_, _)
ProductFrom(s, i) == IF i > Len(s) THEN 1 ELSE s[i] * ProductFrom(s, i + 1)

\* Shape::elements
Elements(shape) == ProductFrom(shape, 1)

RECURSIVE IntSumFrom(_, _)
IntSumFrom(s, i) == IF i > Len(s) THEN 0 ELSE s[i] + IntSumFrom(s, i + 1)

IntSum(s) == IntSumFrom(s, 1)

\* Shape::index_from_flat_unchecked: the loop, axis by axis, carrying (n, flat).
RECURSIVE IndexFromFlatLoop(_, _, _, _)
IndexFromFlatLoop(shape, i, n, flat) ==
    IF i > Len(shape) THEN <<>>
    ELSE LET n2 == n \div shape[i]
         IN  <<flat \div n2>> \o IndexFromFlatLoop(shape, i + 1, n2, flat % n2)

index_from_flat_unchecked(shape, flat) ==
    IndexFromFlatLoop(shape, 1, Elements(shape), flat)

\* Shape::index_sum_from_flat_unchecked: the same loop, summing the coordinates.
RECURSIVE IndexSumLoop(_, _, _, _)
IndexSumLoop(shape, i, n, flat) ==
    IF i > Len(shape) THEN 0
    ELSE LET n2 == n \div shape[i]
         IN  (flat \div n2) + IndexSumLoop(shape, i + 1, n2, flat % n2)

index_sum_from_flat_unchecked(shape, flat) ==
    IndexSumLoop(shape, 1, Elements(shape), flat)

\* The loop of Shape::strides over (i, v) for i = len-1 down to 1: the first i
\* strides are multiplied by the extent v of axis i.
RECURSIVE StridesLoop(_, _, _)
StridesLoop(shape, i, strd) ==
    IF i < 1 THEN strd
    ELSE StridesLoop(shape, i - 1,
             [j \in 1..Len(shape) |-> IF j <= i THEN strd[j] * shape[i + 1] ELSE strd[j]])

\* Shape::strides: strides[i] is the product of the extents after axis i (a
\* variant that takes the product of the extents from axis i on is
\* strides_inclusive).
strides_inclusive(shape) == [i \in 1..Len(shape) |-> ProductFrom(shape, i)]

strides(shape) == StridesLoop(shape, Len(shape) - 1, [j \in 1..Len(shape) |-> 1])

RECURSIVE FlatIndexFrom(_, _, _)
FlatIndexFrom(strd, index, i) ==
    IF i > Len(strd) \/ i > Len(index) THEN 0
    ELSE strd[i] * index[i] + FlatIndexFrom(strd, index, i + 1)

\* Strides::flat_index_unchecked
flat_index_unchecked(strd, index) == FlatIndexFrom(strd, index, 1)

\* RemovedAxis::iter: the sequence without the (0-based) axis.
remove_axis(s, axis) ==
    [i \in 1..(Len(s) - 1) |-> IF i - 1 < axis THEN s[i] ELSE s[i + 1]]

(***************************************************************************)
(* Folding (core/src/spectrum/folded.rs).                                  *)
(***************************************************************************)
NoneCell == [some |-> FALSE, v |-> Zero]
SomeCell(x) == [some |-> TRUE, v |-> x]

\* The half-and-half split of a cell on the diagonal (a variant that adds the
\* two cells whole is FoldDiagonalWhole).
FoldDiagonalWhole(a, b) == RAdd(a, b)

FoldDiagonal(a, b) == RAdd(RMul(Half, a), RMul(Half, b))

\* One iteration of the closure of Folded::from_spectrum: the cell written to
\* dst[i] from src[i] and src[rev_i].
FoldCell(data, shape, i, rev_i, mid_count, has_diagonal) ==
    LET count == index_sum_from_flat_unchecked(shape, i)
    IN  IF count < mid_count \/ (count = mid_count /\ ~has_diagonal)
        THEN SomeCell(RAdd(data[i + 1], data[rev_i + 1]))
        ELSE IF count = mid_count
        THEN SomeCell(FoldDiagonal(data[i + 1], data[rev_i + 1]))
        ELSE NoneCell

\* (0..n).rev() of Folded::from_spectrum: the position zipped with i (a
\* variant that is one further on is rev_i_shifted).
rev_i_shifted(n, i) == (n - i) % n

rev_i(n, i) == (n - 1) - i

\* Folded::from_spectrum
from_spectrum(data, shape) ==
    LET n == Len(data)
        total_count == IntSum(shape) - Len(shape)
        mid_count == total_count \div 2
        has_diagonal == total_count % 2 = 0
    IN  [i \in 1..n |->
            FoldCell(data, shape, i - 1, rev_i(n, i - 1), mid_count, has_diagonal)]

\* Folded::into_spectrum
into_spectrum(folded, fill) ==
    [i \in 1..Len(folded) |-> IF folded[i].some THEN folded[i].v ELSE fill]

(***************************************************************************)
(* Axis views and their element iterator (core/src/array.rs,               *)
(* core/src/array/view/iter.rs).                                           *)
(***************************************************************************)
NoneView == [kind |-> "none"]
PanicView == [kind |-> "panic"]

\* Array::get_axis.  The guard compares axis > dimensions; with
\* axis = dimensions the guard's shape[axis.0] indexes out of bounds.
get_axis(data, shape, axis, index) ==
    IF axis > Len(shape) THEN NoneView
    ELSE IF axis = Len(shape) THEN PanicView
    ELSE IF index >= shape[axis + 1] THEN NoneView
    ELSE [kind |-> "view",
          offset |-> index * strides(shape)[axis + 1],
          shape |-> remove_axis(shape, axis),
          strides |-> remove_axis(strides(shape), axis)]

\* view.data.get(offset), the view's data being data[view.offset..].
ViewGet(data, view, offset) ==
    IF view.offset + offset < Len(data)
    THEN SomeCell(data[view.offset + offset + 1])
    ELSE NoneCell

\* Iter::new
ViewIterNew(view) ==
    [coords |-> [i \in 1..Len(view.shape) |-> 0], offset |-> 0, index |-> 0]

\* Iter::backstride
backstride(view, axis) == view.strides[axis + 1] * (view.shape[axis + 1] - 1)

\* Iter::impl_next_rec: the iterator's state after the call and the item returned.
RECURSIVE impl_next_rec(_, _, _, _)
impl_next_rec(data, view, st, axis) ==
    IF st.index = 0
    THEN [st |-> [st EXCEPT !.index = 1], item |-> ViewGet(data, view, 0)]
    ELSE LET c == st.coords[axis + 1] + 1
         IN  IF c < view.shape[axis + 1]
             THEN LET st2 == [st EXCEPT !.coords[axis + 1] = c,
                                        !.offset = st.offset + view.strides[axis + 1],
                                        !.index = st.index + 1]
                  IN  [st |-> st2, item |-> ViewGet(data, view, st2.offset)]
             ELSE IF axis > 0
             THEN impl_next_rec(data, view,
                      [st EXCEPT !.coords[axis + 1] = 0,
                                 !.offset = st.offset - backstride(view, axis)],
                      axis - 1)
             ELSE [st |-> [st EXCEPT !.coords[axis + 1] = c], item |-> NoneCell]

\* Iter::next
ViewIterNext(data, view, st) == impl_next_rec(data, view, st, Len(view.shape) - 1)

\* The items the iterator gives to a zip that asks for at most k of them and
\* stops at the first None.
RECURSIVE ViewTake(_, _, _, _)
ViewTake(data, view, st, k) ==
    IF k = 0 THEN <<>>
    ELSE LET r == ViewIterNext(data, view, st)
         IN  IF r.item.some
             THEN <<r.item.v>> \o ViewTake(data, view, r.st, k - 1)
             ELSE <<>>

\* AxisIter: the views get_axis gives for index, index + 1, .. until it gives None.
RECURSIVE AxisViews(_, _, _, _)
AxisViews(data, shape, axis, index) ==
    LET v == get_axis(data, shape, axis, index)
    IN  IF v.kind = "view"
        THEN <<v>> \o AxisViews(data, shape, axis, index + 1)
        ELSE <<>>

\* The closure of Array::sum: array.iter_mut().zip(view.iter()), adding.
SumAddView(data, acc, view) ==
    LET items == ViewTake(data, view, ViewIterNew(view), Len(acc))
    IN  [i \in 1..Len(acc) |->
            IF i <= Len(items) THEN RAdd(acc[i], items[i]) ELSE acc[i]]

RECURSIVE SumFoldViews(_, _, _, _)
SumFoldViews(data, acc, views, k) ==
    IF k > Len(views) THEN acc
    ELSE SumFoldViews(data, SumAddView(data, acc, views[k]), views, k + 1)

\* Array::sum over an axis of an array of two or more dimensions.
ArraySum(data, shape, axis) ==
    LET smaller_shape == remove_axis(shape, axis)
        zeros == [i \in 1..Elements(smaller_shape) |-> Zero]
    IN  [data |-> SumFoldViews(data, zeros, AxisViews(data, shape, axis, 0), 1),
         shape |-> smaller_shape]

(***************************************************************************)
(* Spectrum::marginalize (core/src/spectrum.rs).                           *)
(***************************************************************************)
\* slice.contains(axis) for the slice axes[from..]
ContainsFrom(axes, from, axis) == \E j \in from..Len(axes) : axes[j] = axis

\* The first position whose axis occurs again later in the list, 0 if none (a
\* variant that finds none is FirstDuplicateNone).
FirstDuplicateNone(axes) == 0

FirstDuplicate(axes) ==
    LET dups == {i \in 1..Len(axes) : ContainsFrom(axes, i + 1, axes[i])}
    IN  IF dups = {} THEN 0 ELSE CHOOSE i \in dups : \A j \in dups : i <= j

\* The first position whose axis is out of bounds, 0 if none.
FirstOutOfBounds(axes, dimensions) ==
    LET oob == {i \in 1..Len(axes) : axes[i] >= dimensions}
    IN  IF oob = {} THEN 0 ELSE CHOOSE i \in oob : \A j \in oob : i <= j

\* axes.windows(2).all(|w| w[0] <= w[1])
IsSortedAxes(axes) == \A i \in 1..(Len(axes) - 1) : axes[i] <= axes[i + 1]

RECURSIVE Insert(_, _)
Insert(sorted, x) ==
    IF sorted = <<>> THEN <<x>>
    ELSE IF x < Head(sorted) THEN <<x>> \o sorted
    ELSE <<Head(sorted)>> \o Insert(Tail(sorted), x)

RECURSIVE SortAxes(_)
SortAxes(axes) ==
    IF axes = <<>> THEN <<>>
    ELSE Insert(SortAxes(SubSeq(axes, 1, Len(axes) - 1)), axes[Len(axes)])

\* The axis removed for the k-th requested axis once `removed` axes are gone
\* (a variant that does not shift is ShiftedAxisStale).
ShiftedAxisStale(original, removed) == original

ShiftedAxis(original, removed) == original - removed

\* Spectrum::marginalize_unchecked: remove the (sorted) axes one by one.
RECURSIVE marginalize_unchecked(_, _, _)
marginalize_unchecked(spectrum, axes, k) ==
    IF k > Len(axes) THEN spectrum
    ELSE marginalize_unchecked(
             ArraySum(spectrum.data, spectrum.shape, ShiftedAxis(axes[k], k - 1)),
             axes, k + 1)

\* Spectrum::marginalize
marginalize(data, shape, axes) ==
    LET dimensions == Len(shape)
        dup == FirstDuplicate(axes)
        oob == FirstOutOfBounds(axes, dimensions)
    IN  IF dup # 0 THEN [ok |-> FALSE, err |-> "DuplicateAxis", axis |-> axes[dup]]
        ELSE IF oob # 0 THEN [ok |-> FALSE, err |-> "AxisOutOfBounds", axis |-> axes[oob]]
        ELSE IF Len(axes) >= dimensions THEN [ok |-> FALSE, err |-> "TooManyAxes"]
        ELSE [ok |-> TRUE,
              spectrum |-> marginalize_unchecked(
                               [data |-> data, shape |-> shape],
                               IF IsSortedAxes(axes) THEN axes ELSE SortAxes(axes), 1)]

(***************************************************************************)
(* Hypergeometric weights (core/src/spectrum/project/hypergeometric.rs).   *)
(***************************************************************************)
\* The precomputed table of factorials; ln_factorial(x) is its logarithm.
RECURSIVE Factorial(_)
Factorial(n) == IF n <= 0 THEN 1 ELSE n * Factorial(n - 1)

\* binomial: floor(0.5 + exp(ln n! - ln k! - ln (n-k)!)), the quotient of the
\* factorials rounded to the nearest integer (a variant without the k > n
\* guard of the source, which then takes the factorial of a negative number as
\* 1, is binomialUnguarded).
binomialUnguarded(n, k) ==
    LET D == Factorial(k) * Factorial(n - k)
    IN  (2 * Factorial(n) + D) \div (2 * D)

binomial(n, k) ==
    IF k > n THEN 0
    ELSE LET D == Factorial(k) * Factorial(n - k)
         IN  (2 * Factorial(n) + D) \div (2 * D)

\* pmf_unchecked (a variant that weighs every observed count alike is
\* pmf_unchecked_uniform).
pmf_unchecked_uniform(size, successes, draws, observed) == Rat(1, draws + 1)

pmf_unchecked(size, successes, draws, observed) ==
    IF observed > draws THEN Zero
    ELSE Rat(binomial(successes, observed) * binomial(size - successes, draws - observed),
             binomial(size, draws))

(***************************************************************************)
(* Projection (core/src/spectrum/project.rs, Spectrum::project).           *)
(***************************************************************************)
\* Count::try_from_shape: every extent minus one, none if an extent is zero.
try_from_shape(shape) ==
    IF \E i \in 1..Len(shape) : shape[i] = 0 THEN [some |-> FALSE, v |-> <<>>]
    ELSE [some |-> TRUE, v |-> [i \in 1..Len(shape) |-> shape[i] - 1]]

\* Count::into_shape
into_shape(count) == [i \in 1..Len(count) |-> count[i] + 1]

\* ProjectIter::project_value: the product of the per-dimension weights.
RECURSIVE ProjectValueFrom(_, _, _, _, _)
ProjectValueFrom(project_from, from, project_to, to, i) ==
    IF i > Len(project_from) \/ i > Len(from) \/ i > Len(project_to) \/ i > Len(to)
    THEN One
    ELSE RMul(pmf_unchecked(project_from[i], from[i], project_to[i], to[i]),
              ProjectValueFrom(project_from, from, project_to, to, i + 1))

project_value(project_from, from, project_to, to) ==
    ProjectValueFrom(project_from, from, project_to, to, 1)

\* ProjectIter::impl_next_rec on the iterator state [to, index].
RECURSIVE project_next_rec(_, _, _, _, _)
project_next_rec(project_from, from, project_to, st, axis) ==
    IF st.index = 0
    THEN [st |-> [st EXCEPT !.index = 1],
          item |-> SomeCell(project_value(project_from, from, project_to, st.to))]
    ELSE LET c == st.to[axis + 1] + 1
         IN  IF c <= project_to[axis + 1]
             THEN LET st2 == [st EXCEPT !.to[axis + 1] = c, !.index = st.index + 1]
                  IN  [st |-> st2,
                       item |-> SomeCell(project_value(project_from, from, project_to, st2.to))]
             ELSE IF axis > 0
             THEN project_next_rec(project_from, from, project_to,
                                   [st EXCEPT !.to[axis + 1] = 0], axis - 1)
             ELSE [st |-> [st EXCEPT !.to[axis + 1] = c], item |-> NoneCell]

\* The weights the iterator gives to a zip that asks for at most k of them.
RECURSIVE ProjectTake(_, _, _, _, _)
ProjectTake(project_from, from, project_to, st, k) ==
    IF k = 0 THEN <<>>
    ELSE LET r == project_next_rec(project_from, from, project_to, st,
                                   Len(project_to) - 1)
         IN  IF r.item.some
             THEN <<r.item.v>> \o ProjectTake(project_from, from, project_to, r.st, k - 1)
             ELSE <<>>

\* PartialProjection::project_unchecked (to_buf set to zero) followed by
\* Projected::into_weighted(weight).add_unchecked(to) (a variant that adds
\* nothing is add_unchecked_nothing).
add_unchecked_nothing(to, project_from, project_to, from, weight) == to

add_unchecked(to, project_from, project_to, from, weight) ==
    LET st0 == [to |-> [i \in 1..Len(project_to) |-> 0], index |-> 0]
        AddItems(items) ==
            [i \in 1..Len(to) |->
                IF i <= Len(items) THEN RAdd(to[i], RMul(items[i], weight)) ELSE to[i]]
    IN  AddItems(ProjectTake(project_from, from, project_to, st0, Len(to)))

\* The first dimension (1-based) in which from < to, 0 if none.
FirstLessUnchecked(from, to) == 0

FirstLess(from, to) ==
    LET m == IF Len(from) < Len(to) THEN Len(from) ELSE Len(to)
        bad == {i \in 1..m : from[i] < to[i]}
    IN  IF bad = {} THEN 0 ELSE CHOOSE i \in bad : \A j \in bad : i <= j

\* Projection::new
ProjectionNew(from, to) ==
    IF Len(from) = Len(to)
    THEN IF FirstLess(from, to) # 0
         THEN [ok |-> FALSE, err |-> "InvalidProjection"]
         ELSE [ok |-> TRUE, project_from |-> from, project_to |-> to]
    ELSE IF Len(from) = 0 THEN [ok |-> FALSE, err |-> "Empty"]
    ELSE [ok |-> FALSE, err |-> "UnequalDimensions"]

\* Projection::from_shapes
from_shapes(project_from, project_to) ==
    LET f == try_from_shape(project_from)
        t == try_from_shape(project_to)
    IN  IF f.some /\ t.some THEN ProjectionNew(f.v, t.v)
        ELSE [ok |-> FALSE, err |-> "Zero"]

\* The loop of Spectrum::project over the source cells, in row-major order.
RECURSIVE ProjectLoop(_, _, _, _, _)
ProjectLoop(new, data, shape, projection, flat) ==
    IF flat >= Len(data) THEN new
    ELSE ProjectLoop(
             add_unchecked(new, projection.project_from, projection.project_to,
                           index_from_flat_unchecked(shape, flat), data[flat + 1]),
             data, shape, projection, flat + 1)

\* Spectrum::project
project(data, shape, project_to) ==
    LET projection == from_shapes(shape, project_to)
    IN  IF ~projection.ok THEN projection
        ELSE [ok |-> TRUE,
              spectrum |->
                 [data |-> ProjectLoop([i \in 1..Elements(project_to) |-> Zero],
                                       data, shape, projection, 0),
                  shape |-> project_to]]

(***************************************************************************)
(* State.                                                                  *)
(*   call, ret   the spectrum operation applied and its result             *)
(*   cfg         the options given to `create`                             *)
(*   pc          where Create::run / Runner::run stands                    *)
(*   rd          the site reader (sample map, projection, counts, totals,  *)
(*               skipped samples)                                          *)
(*   scs         the spectrum being accumulated                            *)
(*   sites, skipped   the runner's counters                                *)
(*   warnings    the per-reason tallies of the runner of cli/src/create    *)
(*   log         the messages the runner has handed to the log             *)
(*   pos         the number of read_genotypes calls made so far            *)
(*   input       what the genotype input gave to the latest read           *)
(*   last        what the latest read_site call returned                   *)
(***************************************************************************)
VARIABLES call, ret, cfg, pc, rd, scs, sites, skipped, warnings, pos, input, last, it,
          log

vars == <<call, ret, cfg, pc, rd, scs, sites, skipped, warnings, pos, input, last, it, log>>
callVars == <<call, ret>>
runVars == <<cfg, pc, rd, scs, sites, skipped, warnings, pos, input, last, log>>

\* No iterator has been made.
NoIter == [kind |-> "none", made |-> 0]

NoRun ==
    /\ cfg = [kind |-> "none"]
    /\ pc = "idle"
    /\ rd = [kind |-> "none"]
    /\ scs = <<>>
    /\ sites = 0
    /\ skipped = 0
    /\ warnings = <<>>
    /\ pos = 0
    /\ input = [kind |-> "none", genotypes |-> <<>>]
    /\ last = [status |-> "none"]
    /\ it = NoIter
    /\ log = <<>>

(***************************************************************************)
(* Inputs of the spectrum transforms.                                      *)
(***************************************************************************)
\* Every shape of 1..MaxAxes axes with extents 1..MaxDim.
Shapes == UNION {[1..k -> 1..MaxDim] : k \in 1..MaxAxes}

\* from_range data 0, 1, .., n-1 (as in the tests), constant data, and the unit
\* spectra, which span all spectra of n cells.
RangeData(n) == [i \in 1..n |-> RInt(i - 1)]
UnitData(n, j) == [i \in 1..n |-> IF i = j THEN One ELSE Zero]
DataOf(n) ==
    {RangeData(n), [i \in 1..n |-> One]} \cup {UnitData(n, j) : j \in 1..n}

Fills == {Zero, RInt(-1)}

(***************************************************************************)
(* The spectrum transforms, each under a specification of its own: the     *)
(* initial state holds the arguments of one call, the action applies the   *)
(* operation and stores what it returns.                                   *)
(***************************************************************************)
Pending == [done |-> FALSE]
Returned(v) == [done |-> TRUE, v |-> v]

(***************************************************************************)
(* Spectrum::fold followed by Folded::into_spectrum.                       *)
(***************************************************************************)
InitFold ==
    /\ call \in [op : {"fold"}, shape : Shapes, fill : Fills,
                 data : UNION {DataOf(Elements(shape)) : shape \in Shapes}]
    /\ Len(call.data) = Elements(call.shape)
    /\ ret = Pending
    /\ NoRun

Fold ==
    /\ call.op = "fold"
    /\ ~ret.done
    /\ ret' = Returned(into_spectrum(from_spectrum(call.data, call.shape), call.fill))
    /\ UNCHANGED <<it, call, runVars>>

SpecFold == InitFold /\ [][Fold]_vars

\* The multi-index of a flat position, coordinate by coordinate: coordinate d of
\* position i is (i div (product of the extents after d)) mod extent d.
CoordOf(shape, i, d) == (i \div ProductFrom(shape, d + 1)) % shape[d]
CoordSum(shape, i) == IntSum([d \in 1..Len(shape) |-> CoordOf(shape, i, d)])
TotalCount(shape) == IntSum([d \in 1..Len(shape) |-> shape[d] - 1])

\* C2: fold().into_spectrum(fill) gives, at every flat position i with mirror
\* rev_i = n-1-i, src[i] + src[rev_i] above the middle count (or on it when the
\* total count is odd), half of each on the diagonal when the total count is
\* even, and the fill value below it.
C2_FoldCells ==
    (call.op = "fold" /\ ret.done) =>
        LET n == Len(call.data)
            total == TotalCount(call.shape)
            mid == total \div 2
        IN  /\ Len(ret.v) = n
            /\ \A i \in 0..(n - 1) :
                  LET c == CoordSum(call.shape, i)
                      a == call.data[i + 1]
                      b == call.data[(n - 1 - i) + 1]
                  IN  ret.v[i + 1] =
                         IF c < mid \/ (c = mid /\ total % 2 = 1) THEN RAdd(a, b)
                         ELSE IF c = mid THEN Rat(a[1] * b[2] + b[1] * a[2], 2 * a[2] * b[2])
                         ELSE call.fill

\* A 3x3 range spectrum folded with fill -1: cell (0,2) is on the diagonal and
\* becomes half of 2 plus half of 6, cell (0,0) becomes 0 + 8, cell (2,2) is filled.
C2_Witness ==
    /\ call.op = "fold"
    /\ ret.done
    /\ call.shape = <<3, 3>>
    /\ call.data = RangeData(9)
    /\ call.fill = RInt(-1)
    /\ ret.v[3] = RInt(4)
    /\ ret.v[1] = RInt(8)
    /\ ret.v[9] = RInt(-1)

(***************************************************************************)
(* Spectrum::marginalize applied to a spectrum and a list of axes.         *)
(***************************************************************************)
\* Every list of at most `dimensions` axes drawn from 0..dimensions: in and out
\* of bounds, with and without duplicates, in every order.
AxesLists(dimensions) ==
    UNION {[1..k -> 0..dimensions] : k \in 0..dimensions}

InitMarginalize ==
    /\ call \in [op : {"marginalize"}, shape : Shapes,
                 data : UNION {DataOf(Elements(shape)) : shape \in Shapes},
                 axes : AxesLists(MaxAxes)]
    /\ Len(call.data) = Elements(call.shape)
    /\ call.axes \in AxesLists(Len(call.shape))
    /\ ret = Pending
    /\ NoRun

Marginalize ==
    /\ call.op = "marginalize"
    /\ ~ret.done
    /\ ret' = Returned(marginalize(call.data, call.shape, call.axes))
    /\ UNCHANGED <<it, call, runVars>>

SpecMarginalize == InitMarginalize /\ [][Marginalize]_vars

AxisSet(axes) == {axes[i] : i \in 1..Len(axes)}

\* The axes (1-based positions of the shape) that are not requested, ascending.
RECURSIVE KeptFrom(_, _, _)
KeptFrom(dimensions, requested, d) ==
    IF d > dimensions THEN <<>>
    ELSE (IF (d - 1) \in requested THEN <<>> ELSE <<d>>)
         \o KeptFrom(dimensions, requested, d + 1)

ValidAxes(shape, axes) ==
    /\ Cardinality(AxisSet(axes)) = Len(axes)
    /\ \A a \in AxisSet(axes) : a < Len(shape)
    /\ Len(axes) < Len(shape)

\* The sum of the source cells whose coordinates on the kept axes are those of
\* flat position r of the marginal spectrum.
MarginalCell(data, shape, kept, keptShape, r) ==
    LET cells == {i \in 0..(Len(data) - 1) :
                     \A k \in 1..Len(kept) :
                        CoordOf(shape, i, kept[k]) = CoordOf(keptShape, r, k)}
        pick[S \in SUBSET cells] ==
            IF S = {} THEN Zero
            ELSE LET i == CHOOSE x \in S : TRUE
                 IN  RAdd(data[i + 1], pick[S \ {i}])
    IN  pick[cells]

\* C3: for a duplicate-free list of in-bounds axes shorter than the number of
\* dimensions, marginalize returns the spectrum over the remaining axes in
\* their original order, each cell the sum of the source cells over exactly the
\* requested axes, whatever the order of the list.
C3_Marginalize ==
    (call.op = "marginalize" /\ ret.done /\ ValidAxes(call.shape, call.axes)) =>
        LET kept == KeptFrom(Len(call.shape), AxisSet(call.axes), 1)
            keptShape == [k \in 1..Len(kept) |-> call.shape[kept[k]]]
        IN  /\ ret.v.ok
            /\ ret.v.spectrum.shape = keptShape
            /\ Len(ret.v.spectrum.data) = Elements(keptShape)
            /\ \A r \in 0..(Elements(keptShape) - 1) :
                  ret.v.spectrum.data[r + 1] =
                     MarginalCell(call.data, call.shape, kept, keptShape, r)

\* The 3x3x3 range spectrum marginalized over the axes 2, 0 in that order
\* (sorted first, then axis 0 and axis 2 - 1 are removed): [90, 117, 144].
C3_Witness ==
    /\ call.op = "marginalize"
    /\ ret.done
    /\ call.shape = <<3, 3, 3>>
    /\ call.data = RangeData(27)
    /\ call.axes = <<2, 0>>
    /\ ret.v.ok
    /\ ret.v.spectrum.shape = <<3>>
    /\ ret.v.spectrum.data = <<RInt(90), RInt(117), RInt(144)>>

(***************************************************************************)
(* Spectrum::project applied to a count spectrum and a target shape.       *)
(***************************************************************************)
\* Longest one-dimensional spectrum projected (the tests project 7 cells).
MaxLine == 7

ProjectSources == Shapes \cup [1..1 -> 1..MaxLine]

\* Targets of as many dimensions as the source, with extents from zero to one
\* more than the source extent, and some targets of other dimensions.
ProjectTargets(shape) ==
    {t \in [1..Len(shape) -> 0..(MaxLine + 1)] :
        \A d \in 1..Len(shape) : t[d] <= shape[d] + 1}
    \cup UNION {[1..k -> {0, 2}] : k \in (1..MaxAxes) \ {Len(shape)}}

InitProject ==
    /\ \E shape \in ProjectSources :
       \E data \in DataOf(Elements(shape)) :
       \E project_to \in ProjectTargets(shape) :
          call = [op |-> "project", shape |-> shape, data |-> data,
                  project_to |-> project_to]
    /\ ret = Pending
    /\ NoRun

Project ==
    /\ call.op = "project"
    /\ ~ret.done
    /\ ret' = Returned(project(call.data, call.shape, call.project_to))
    /\ UNCHANGED <<it, call, runVars>>

SpecProject == InitProject /\ [][Project]_vars

ValidTarget(shape, project_to) ==
    /\ Len(project_to) = Len(shape)
    /\ \A d \in 1..Len(shape) : project_to[d] >= 1 /\ project_to[d] <= shape[d]

\* C4: for every count spectrum and every valid target shape the cells of
\* project(target) sum to what the cells of the source sum to.
C4_ProjectConservesMass ==
    (call.op = "project" /\ ret.done /\ ValidTarget(call.shape, call.project_to)) =>
        /\ ret.v.ok
        /\ ret.v.spectrum.shape = call.project_to
        /\ Len(ret.v.spectrum.data) = Elements(call.project_to)
        /\ SpectrumSum(ret.v.spectrum.data) = SpectrumSum(call.data)

\* The 3x3 range spectrum projected to 2x2 is [3, 6, 12, 15]: 36 in all.
C4_Witness ==
    /\ call.op = "project"
    /\ ret.done
    /\ call.shape = <<3, 3>>
    /\ call.data = RangeData(9)
    /\ call.project_to = <<2, 2>>
    /\ ret.v.ok
    /\ ret.v.spectrum.data = <<RInt(3), RInt(6), RInt(12), RInt(15)>>
    /\ SpectrumSum(call.data) = RInt(36)

(***************************************************************************)
(* pmf_unchecked and the joint weight project_value.                       *)
(***************************************************************************)
\* Largest population size (in alleles) whose weights are computed.
MaxSize == 8

\* Largest population size per dimension of the joint weights computed.
MaxJoint == 3

\* One-dimensional arguments (size, successes, draws) with successes <= size
\* and draws <= size, or two-dimensional arguments of project_value.
PmfArgs(m) ==
    {a \in [size : 0..m, successes : 0..m, draws : 0..m, observed : 0..(m + 1)] :
        a.successes <= a.size /\ a.draws <= a.size /\ a.observed <= a.draws + 1}

InitPmf ==
    /\ \/ \E size \in 0..MaxSize : \E successes \in 0..size : \E draws \in 0..size :
             call = [op |-> "pmf", size |-> size, successes |-> successes,
                     draws |-> draws]
       \/ \E a \in PmfArgs(MaxJoint) : \E b \in PmfArgs(MaxJoint) :
             call = [op |-> "joint",
                     project_from |-> <<a.size, b.size>>,
                     from |-> <<a.successes, b.successes>>,
                     project_to |-> <<a.draws, b.draws>>,
                     to |-> <<a.observed, b.observed>>]
    /\ ret = Pending
    /\ NoRun

\* pmf_unchecked for every observed count from 0 to draws + 1.
Pmf ==
    /\ call.op = "pmf"
    /\ ~ret.done
    /\ ret' = Returned([j \in 1..(call.draws + 2) |->
                  pmf_unchecked(call.size, call.successes, call.draws, j - 1)])
    /\ UNCHANGED <<it, call, runVars>>

\* project_value for one target multi-index.
Joint ==
    /\ call.op = "joint"
    /\ ~ret.done
    /\ ret' = Returned(project_value(call.project_from, call.from, call.project_to, call.to))
    /\ UNCHANGED <<it, call, runVars>>

SpecPmf == InitPmf /\ [][Pmf \/ Joint]_vars

\* The binomial coefficient by Pascal's rule.
RECURSIVE Choose(_, _)
Choose(n, k) ==
    IF k < 0 \/ k > n THEN 0
    ELSE IF k = 0 THEN 1
    ELSE Choose(n - 1, k - 1) + Choose(n - 1, k)

Hypergeometric(n, s, d, k) ==
    IF k > d THEN Zero ELSE Rat(Choose(s, k) * Choose(n - s, d - k), Choose(n, d))

\* C5: pmf(n, s, d, k) is C(s,k) C(n-s,d-k) / C(n,d) for k <= d and 0 for k > d,
\* it is 0 whenever k > s or d-k > n-s, its values over k = 0..d sum to 1, and
\* the joint weight of a target multi-index is the product over the dimensions.
C5_Pmf ==
    /\ (call.op = "pmf" /\ ret.done) =>
           LET n == call.size
               s == call.successes
               d == call.draws
           IN  /\ \A k \in 0..(d + 1) :
                     /\ ret.v[k + 1] = Hypergeometric(n, s, d, k)
                     /\ (k > s \/ (k <= d /\ d - k > n - s)) => ret.v[k + 1] = Zero
               /\ SpectrumSum(SubSeq(ret.v, 1, d + 1)) = One
    /\ (call.op = "joint" /\ ret.done) =>
           ret.v = RMul(Hypergeometric(call.project_from[1], call.from[1],
                                       call.project_to[1], call.to[1]),
                        Hypergeometric(call.project_from[2], call.from[2],
                                       call.project_to[2], call.to[2]))

\* Six alleles with two derived, two drawn: 0.4, 0.533333, 0.066667, and 0 for
\* three observed.
C5_Witness ==
    /\ call.op = "pmf"
    /\ ret.done
    /\ call.size = 6
    /\ call.successes = 2
    /\ call.draws = 2
    /\ ret.v = <<Rat(2, 5), Rat(8, 15), Rat(1, 15), Zero>>

(***************************************************************************)
(* Genotypes (core/src/input/genotype.rs, genotype/reader/vcf.rs).         *)
(* A VCF genotype is absent or a list of allele positions, -1 standing for *)
(* a missing allele.                                                       *)
(***************************************************************************)
NoGenotype == [some |-> FALSE, alleles |-> <<>>]
VcfGenotype(alleles) == [some |-> TRUE, alleles |-> alleles]

GenotypeResult(genotype) == [kind |-> "Genotype", genotype |-> genotype, reason |-> ""]
SkippedResult(reason) == [kind |-> "Skipped", genotype |-> 0, reason |-> reason]
ErrorResult(reason) == [kind |-> "Error", genotype |-> 0, reason |-> reason]

\* Genotype::try_from_raw: the genotype for 0, 1 or 2, otherwise none (-1) (a
\* variant that takes every sum for a genotype is try_from_raw_any).
try_from_raw_any(raw) == raw

try_from_raw(raw) == IF raw \in {0, 1, 2} THEN raw ELSE -1

\* impl From<Option<VcfGenotype>> for genotype::Result
ResultFromSkipping(genotype) ==
    IF ~genotype.some THEN SkippedResult("Missing")
    ELSE IF Len(genotype.alleles) = 2 /\ genotype.alleles[1] >= 0 /\ genotype.alleles[2] >= 0
    THEN IF try_from_raw(genotype.alleles[1] + genotype.alleles[2]) >= 0
         THEN GenotypeResult(try_from_raw(genotype.alleles[1] + genotype.alleles[2]))
         ELSE SkippedResult("Multiallelic")
    ELSE SkippedResult("Missing")

ResultFrom(genotype) ==
    IF ~genotype.some THEN SkippedResult("Missing")
    ELSE IF Len(genotype.alleles) = 2
    THEN LET a == genotype.alleles[1]
             b == genotype.alleles[2]
         IN  IF a >= 0 /\ b >= 0
             THEN IF try_from_raw(a + b) >= 0
                  THEN GenotypeResult(try_from_raw(a + b))
                  ELSE SkippedResult("Multiallelic")
             ELSE SkippedResult("Missing")
    ELSE ErrorResult("PloidyError")

\* vcf::Reader::read_genotypes on what read_record gives: the end of the input,
\* an I/O or format error, or a record with one genotype per header sample.
read_genotypes(event) ==
    CASE event.kind = "eof" -> [status |-> "Done", genotypes |-> <<>>]
      [] event.kind = "io_error" -> [status |-> "Error", genotypes |-> <<>>]
      [] event.kind = "record" ->
            [status |-> "Read",
             genotypes |-> [i \in 1..Len(event.genotypes) |-> ResultFrom(event.genotypes[i])]]

(***************************************************************************)
(* The sample map (core/src/input/sample.rs): the entries of the IndexMap  *)
(* in insertion order, each a sample with its population id.               *)
(***************************************************************************)
\* IndexSet::get_index_of / IndexMap::get_index_of, -1 for none.
IndexOf(seq, x) ==
    IF \E i \in 1..Len(seq) : seq[i] = x
    THEN (CHOOSE i \in 1..Len(seq) : seq[i] = x) - 1
    ELSE -1

MapKeys(map) == [i \in 1..Len(map) |-> map[i].sample]

\* population::Map::get_or_insert on the population names seen so far.
get_or_insert(population_map, name) ==
    IF IndexOf(population_map, name) >= 0
    THEN [id |-> IndexOf(population_map, name), population_map |-> population_map]
    ELSE [id |-> Len(population_map), population_map |-> Append(population_map, name)]

\* Map::from_iter: a sample listed again keeps its position and takes the
\* population of its last listing.
RECURSIVE FromIterLoop(_, _, _, _)
FromIterLoop(list, i, population_map, map) ==
    IF i > Len(list) THEN map
    ELSE LET r == get_or_insert(population_map, list[i][2])
             at == IndexOf(MapKeys(map), list[i][1])
         IN  FromIterLoop(list, i + 1, r.population_map,
                 IF at >= 0 THEN [map EXCEPT ![at + 1].id = r.id]
                 ELSE Append(map, [sample |-> list[i][1], id |-> r.id]))

from_iter(list) == FromIterLoop(list, 1, <<>>, <<>>)

\* Map::from_all
from_all(samples) == from_iter([i \in 1..Len(samples) |-> <<samples[i], "[unnamed]">>])

\* Map::get_population_id, -1 for none (a variant that gives population 0 for
\* a sample that is not in the map is get_population_id_or_first).
get_population_id_or_first(map, sample) ==
    IF IndexOf(MapKeys(map), sample) >= 0 THEN map[IndexOf(MapKeys(map), sample) + 1].id
    ELSE 0

get_population_id(map, sample) ==
    IF IndexOf(MapKeys(map), sample) >= 0 THEN map[IndexOf(MapKeys(map), sample) + 1].id
    ELSE -1

\* Map::get_sample_id
get_sample_id(map, sample) == IndexOf(MapKeys(map), sample)

\* Map::population_sizes: the number of samples of each population id in use.
population_sizes(map) ==
    [id \in {map[i].id : i \in 1..Len(map)} |->
        Cardinality({i \in 1..Len(map) : map[i].id = id})]

\* Map::number_of_populations
number_of_populations(map) == Cardinality(DOMAIN population_sizes(map))

\* Map::shape: 1 + 2 * size for the ids 0..n-1; the unwrap panics when one of
\* these ids has no sample.
MapShape(map) ==
    LET sizes == population_sizes(map)
        n == Cardinality(DOMAIN sizes)
    IN  IF \A id \in 0..(n - 1) : id \in DOMAIN sizes
        THEN [panic |-> FALSE, shape |-> [i \in 1..n |-> 1 + 2 * sizes[i - 1]]]
        ELSE [panic |-> TRUE, shape |-> <<>>]

(***************************************************************************)
(* The site reader (core/src/input/site/reader.rs, reader/builder.rs).     *)
(***************************************************************************)
NoProjection == [some |-> FALSE, project_to |-> <<>>]
SomeProjection(project_to) == [some |-> TRUE, project_to |-> project_to]

BuildError(err, dimension) == [kind |-> "error", err |-> err, dimension |-> dimension]

\* Project::shape
ProjectShape(option) ==
    IF option.kind = "Individuals"
    THEN [i \in 1..Len(option.v) |-> 2 * option.v[i] + 1]
    ELSE option.v

\* Reader::new_unchecked
new_unchecked(sample_map, projection) ==
    [kind |-> "reader",
     sample_map |-> sample_map,
     projection |-> projection,
     counts |-> [i \in 1..number_of_populations(sample_map) |-> 0],
     totals |-> [i \in 1..number_of_populations(sample_map) |-> 0],
     skipped_samples |-> <<>>]

\* Builder::build: the reader, the error it returns, or a panic in Map::shape.
build(samples, project_option, reader_samples) ==
    LET sample_map == IF samples.some THEN from_iter(samples.list)
                      ELSE from_all(reader_samples)
    IN  IF Len(sample_map) = 0 THEN BuildError("EmptySamplesMap", 0)
        ELSE IF \E i \in 1..Len(sample_map) : IndexOf(reader_samples, sample_map[i].sample) < 0
        THEN BuildError("UnknownSample", 0)
        ELSE IF project_option.some
        THEN LET project_to == ProjectShape(project_option)
                 project_from == MapShape(sample_map)
             IN  IF project_from.panic THEN [kind |-> "panic"]
                 ELSE IF Len(project_from.shape) # Len(project_to)
                 THEN BuildError("UnequalDimensions", 0)
                 ELSE IF FirstLess(project_from.shape, project_to) # 0
                 THEN BuildError("InvalidProjection",
                                 FirstLess(project_from.shape, project_to) - 1)
                 ELSE IF ~try_from_shape(project_to).some THEN BuildError("Zero", 0)
                 ELSE new_unchecked(sample_map,
                                    SomeProjection(try_from_shape(project_to).v))
        ELSE new_unchecked(sample_map, NoProjection)

\* Reader::create_zero_scs
create_zero_scs(reader) ==
    LET shape == IF reader.projection.some
                 THEN [panic |-> FALSE, shape |-> into_shape(reader.projection.project_to)]
                 ELSE MapShape(reader.sample_map)
    IN  IF shape.panic THEN [panic |-> TRUE, data |-> <<>>, shape |-> <<>>]
        ELSE [panic |-> FALSE,
              data |-> [i \in 1..Elements(shape.shape) |-> Zero],
              shape |-> shape.shape]

\* Reader::reset (a variant that keeps what the last site left is reset_nothing).
reset_nothing(reader) == reader

reset(reader) ==
    [reader EXCEPT !.counts = [i \in 1..Len(reader.counts) |-> 0],
                   !.totals = [i \in 1..Len(reader.totals) |-> 0],
                   !.skipped_samples = <<>>]

\* self.totals[population_id] += 2 of read_site, for a realized genotype (a
\* variant that adds one per genotype is AddToTotalOne).
AddToTotalOne(total) == total + 1

AddToTotal(total) == total + 2

\* The loop of read_site over reader.samples().zip(genotypes); st holds counts,
\* totals, skipped_samples, whether a genotype error ended the loop and whether
\* self.counts[population_id] panicked on a population id that is not below
\* the number of populations (a map whose ids have a gap).
RECURSIVE ReadSiteLoop(_, _, _, _, _)
ReadSiteLoop(sample_map, samples, genotypes, i, st) ==
    IF i > Len(samples) \/ i > Len(genotypes) THEN st
    ELSE LET population_id == get_population_id(sample_map, samples[i])
             genotype == genotypes[i]
         IN  IF population_id < 0
             THEN ReadSiteLoop(sample_map, samples, genotypes, i + 1, st)
             ELSE IF genotype.kind = "Genotype"
             THEN IF population_id >= Len(st.counts) THEN [st EXCEPT !.panic = TRUE]
                  ELSE ReadSiteLoop(sample_map, samples, genotypes, i + 1,
                           [st EXCEPT !.counts[population_id + 1] = @ + genotype.genotype,
                                      !.totals[population_id + 1] = AddToTotal(@)])
             ELSE IF genotype.kind = "Skipped"
             THEN ReadSiteLoop(sample_map, samples, genotypes, i + 1,
                      [st EXCEPT !.skipped_samples =
                          Append(@, <<get_sample_id(sample_map, samples[i]),
                                      genotype.reason>>)])
             ELSE [st EXCEPT !.error = TRUE]

\* The fold of read_site over totals.zip(project_to): (exact, projectable).
ProjectableSloppy(totals, project_to) ==
    LET m == IF Len(totals) < Len(project_to) THEN Len(totals) ELSE Len(project_to)
    IN  [exact |-> \A i \in 1..m : totals[i] = project_to[i],
         projectable |-> \A i \in 1..m : TRUE]

ExactProjectable(totals, project_to) ==
    LET m == IF Len(totals) < Len(project_to) THEN Len(totals) ELSE Len(project_to)
    IN  [exact |-> \A i \in 1..m : totals[i] = project_to[i],
         projectable |-> \A i \in 1..m : totals[i] >= project_to[i]]

\* Reader::read_site on what the genotype reader returns: the read status
\* (Panic when the loop panicked), the kind of site, and the reader with its
\* counts, totals and skipped samples.
read_site(reader, samples, read) ==
    LET fresh == reset(reader)
    IN  IF read.status = "Error" THEN [status |-> "Error", site |-> "none", reader |-> fresh]
        ELSE IF read.status = "Done" THEN [status |-> "Done", site |-> "none", reader |-> fresh]
        ELSE LET st == ReadSiteLoop(fresh.sample_map, samples, read.genotypes, 1,
                           [counts |-> fresh.counts, totals |-> fresh.totals,
                            skipped_samples |-> fresh.skipped_samples, error |-> FALSE,
                            panic |-> FALSE])
                 now == [fresh EXCEPT !.counts = st.counts, !.totals = st.totals,
                                      !.skipped_samples = st.skipped_samples]
             IN  IF st.panic THEN [status |-> "Panic", site |-> "none", reader |-> now]
                 ELSE IF st.error THEN [status |-> "Error", site |-> "none", reader |-> now]
                 ELSE IF now.projection.some
                 THEN LET f == ExactProjectable(now.totals, now.projection.project_to)
                      IN  [status |-> "Read",
                           site |-> IF f.exact THEN "Standard"
                                    ELSE IF f.projectable THEN "Projected"
                                    ELSE "InsufficientData",
                           reader |-> now]
                 ELSE [status |-> "Read",
                       site |-> IF Len(now.skipped_samples) = 0 THEN "Standard"
                                ELSE "InsufficientData",
                       reader |-> now]

(***************************************************************************)
(* The runner of cli/src/create (runner.rs, samples.rs, genotypes.rs): a   *)
(* sample list holds the group id of every header sample, -1 for a sample  *)
(* that is not selected; a record is parsed as a whole.                    *)
(***************************************************************************)
\* ParseGenotypesError as u8
MissingGenotype == 0
MissingAllele == 1
Multiallelic == 2
NotDiploid == 3

ParsedGenotype(genotype) == [ok |-> TRUE, genotype |-> genotype, error |-> -1]
ParseError(error) == [ok |-> FALSE, genotype |-> 0, error |-> error]

\* impl TryFrom<VcfGenotype> for Genotype, after ok_or(MissingGenotype) on an
\* absent genotype (Genotypes::try_from_iter).
try_from(vcf_genotype) ==
    IF ~vcf_genotype.some THEN ParseError(MissingGenotype)
    ELSE IF Len(vcf_genotype.alleles) = 2
    THEN LET a == vcf_genotype.alleles[1]
             b == vcf_genotype.alleles[2]
         IN  IF a >= 0 /\ b >= 0
             THEN IF try_from_raw(a + b) >= 0 THEN ParsedGenotype(try_from_raw(a + b))
                  ELSE ParseError(Multiallelic)
             ELSE IF a < 0 /\ b < 0 THEN ParseError(MissingGenotype)
             ELSE ParseError(MissingAllele)
    ELSE ParseError(NotDiploid)

\* Genotypes::try_subset_from_iter: the genotypes of the selected samples, or
\* the error of the first of them that does not parse.
RECURSIVE SubsetLoop(_, _, _, _)
SubsetLoop(vcf_genotypes, sample_list, i, genotypes) ==
    IF i > Len(vcf_genotypes) \/ i > Len(sample_list)
    THEN [ok |-> TRUE, genotypes |-> genotypes, error |-> -1]
    ELSE IF sample_list[i] < 0
    THEN SubsetLoop(vcf_genotypes, sample_list, i + 1, genotypes)
    ELSE IF try_from(vcf_genotypes[i]).ok
    THEN SubsetLoop(vcf_genotypes, sample_list, i + 1,
                    Append(genotypes, try_from(vcf_genotypes[i]).genotype))
    ELSE [ok |-> FALSE, genotypes |-> <<>>, error |-> try_from(vcf_genotypes[i]).error]

try_subset_from_iter(vcf_genotypes, sample_list) ==
    SubsetLoop(vcf_genotypes, sample_list, 1, <<>>)

\* SampleList::from_names up to from_samples: header position and group id of
\* every name, or the first name the header does not have.
RECURSIVE FromNamesLoop(_, _, _, _, _)
FromNamesLoop(names, i, header, group_ids, samples) ==
    IF i > Len(names) THEN [ok |-> TRUE, samples |-> samples]
    ELSE IF IndexOf(header, names[i][1]) < 0 THEN [ok |-> FALSE, samples |-> <<>>]
    ELSE FromNamesLoop(names, i + 1, header,
             IF IndexOf(group_ids, names[i][2]) >= 0 THEN group_ids
             ELSE Append(group_ids, names[i][2]),
             Append(samples,
                 [header_position |-> IndexOf(header, names[i][1]),
                  group_id |-> IF IndexOf(group_ids, names[i][2]) >= 0
                               THEN IndexOf(group_ids, names[i][2])
                               ELSE Len(group_ids)]))

\* SampleList::from_samples: a sample named again takes its last group.
RECURSIVE AssignLoop(_, _, _)
AssignLoop(samples, i, inner) ==
    IF i > Len(samples) THEN inner
    ELSE AssignLoop(samples, i + 1,
                    [inner EXCEPT ![samples[i].header_position + 1] = samples[i].group_id])

from_samples(samples, header) ==
    IF Len(samples) = 0 THEN [kind |-> "error", err |-> "Empty"]
    ELSE [kind |-> "legacy",
          sample_list |-> AssignLoop(samples, 1, [i \in 1..Len(header) |-> -1])]

\* SampleList::from_names
from_names(names, header) ==
    IF ~FromNamesLoop(names, 1, header, <<>>, <<>>).ok
    THEN [kind |-> "error", err |-> "UnknownSample"]
    ELSE from_samples(FromNamesLoop(names, 1, header, <<>>, <<>>).samples, header)

\* SampleList::from_all_samples
from_all_samples(header) ==
    [kind |-> "legacy", sample_list |-> [i \in 1..Len(header) |-> 0]]

\* SampleList::shape
SampleListShape(sample_list) ==
    LET ids == {sample_list[i] : i \in {j \in 1..Len(sample_list) : sample_list[j] >= 0}}
        n == 1 + (CHOOSE x \in ids : \A y \in ids : y <= x)
    IN  [g \in 1..n |->
            1 + 2 * Cardinality({i \in 1..Len(sample_list) : sample_list[i] = g - 1})]

\* AlleleCounts::add on zeroed counts: genotypes zipped with the group ids of
\* the selected samples.
RECURSIVE AddLoop(_, _, _, _)
AddLoop(genotypes, groups, i, counts) ==
    IF i > Len(genotypes) \/ i > Len(groups) THEN counts
    ELSE AddLoop(genotypes, groups, i + 1,
                 [counts EXCEPT ![groups[i] + 1] = @ + genotypes[i]])

SelectedGroups(sample_list) ==
    LET RECURSIVE Sel(_)
        Sel(i) == IF i > Len(sample_list) THEN <<>>
                  ELSE IF sample_list[i] >= 0 THEN <<sample_list[i]>> \o Sel(i + 1)
                  ELSE Sel(i + 1)
    IN  Sel(1)

allele_counts_add(genotypes, sample_list, dimensions) ==
    AddLoop(genotypes, SelectedGroups(sample_list), 1, [g \in 1..dimensions |-> 0])

\* Warnings::warn_once: the tally of the reason grows by one.
warn_once_untallied(counts, error) == counts

warn_once(counts, error) == [counts EXCEPT ![error + 1] = @ + 1]

\* ParseGenotypesError::reason
reason(error) ==
    CASE error = MissingGenotype -> "missing genotype"
      [] error = MissingAllele -> "missing genotype allele"
      [] error = Multiallelic -> "multiallelic genotype"
      [] error = NotDiploid -> "genotype not diploid"

\* A message handed to the log: the example for a reason at a site, the
\* message for one more site skipped, the message for a skipped sample of a
\* site (the third field is then the sample), or the tally at the end of the
\* run.
Message(level, kind, why, site, count, total) ==
    [level |-> level, kind |-> kind, reason |-> why, site |-> site,
     count |-> count, total |-> total]

\* Warnings::warn_once: what it logs, given the tallies before the call (a
\* variant that logs at every call is warn_once_log_every).
warn_once_log_every(counts, error, site) ==
    <<Message("warn", "example", reason(error), site, 0, 0)>>

warn_once_log(counts, error, site) ==
    IF counts[error + 1] = 0
    THEN <<Message("warn", "example", reason(error), site, 0, 0)>>
    ELSE <<>>

\* Warnings::summarize: Skipped {count} records due to {reason}, for the
\* variants in order.
RECURSIVE SummarizeFrom(_, _)
SummarizeFrom(counts, error) ==
    IF error >= Len(counts) THEN <<>>
    ELSE (IF counts[error + 1] > 0
          THEN <<Message("warn", "summary", reason(error), 0, counts[error + 1], 0)>>
          ELSE <<>>) \o SummarizeFrom(counts, error + 1)

summarize(counts) == SummarizeFrom(counts, 0)

(***************************************************************************)
(* `create`: Create::run builds the site reader, Runner::run accumulates   *)
(* the spectrum site by site (sfs/src/create/runner.rs).                   *)
(***************************************************************************)
\* The longest genotype stream read, in sites.
MaxSites == 2

\* The samples named in the header of the genotype input.
ReaderSamples == <<"s0", "s1">>

\* Sample lists: two populations in either order, one named population of both
\* or of one sample, a sample listed twice, an unknown sample, an empty list.
SampleLists ==
    {<<<<"s0", "A">>, <<"s1", "B">>>>,
     <<<<"s1", "A">>, <<"s0", "B">>>>,
     <<<<"s0", "A">>, <<"s1", "A">>>>,
     <<<<"s1", "A">>>>,
     <<<<"s0", "A">>, <<"s0", "B">>>>,
     <<<<"s2", "A">>>>,
     <<>>}

NoSamples == [some |-> FALSE, list |-> <<>>]
SamplesOptions == {NoSamples} \cup {[some |-> TRUE, list |-> l] : l \in SampleLists}

\* Projections to a shape or to a number of individuals, of one or two
\* dimensions, valid and invalid ones.
NoProject == [some |-> FALSE, kind |-> "Shape", v |-> <<>>]
ProjectOptions ==
    {NoProject}
    \cup {[some |-> TRUE, kind |-> "Shape", v |-> v] :
             v \in UNION {[1..k -> 0..(2 * Len(ReaderSamples) + 2)] : k \in 1..2}}
    \cup {[some |-> TRUE, kind |-> "Individuals", v |-> v] :
             v \in UNION {[1..k -> 0..Len(ReaderSamples)] : k \in 1..2}}

\* The genotype of a sample in a record: absent, 0/0, 0/1, 1/1, 1/2, ./., 0/.
\* or haploid 1.
VcfGenotypes ==
    {NoGenotype} \cup
    {VcfGenotype(a) : a \in {<<0, 0>>, <<0, 1>>, <<1, 1>>, <<1, 2>>, <<-1, -1>>,
                             <<0, -1>>, <<1>>}}

Records ==
    {[kind |-> "record", genotypes |-> g] : g \in [1..Len(ReaderSamples) -> VcfGenotypes]}
EndOfInput == [kind |-> "eof", genotypes |-> <<>>]
IoError == [kind |-> "io_error", genotypes |-> <<>>]

\* What the next read_record can give after `read` records.
Events(read) == IF read < MaxSites THEN Records \cup {EndOfInput, IoError}
                ELSE {EndOfInput, IoError}

NoInput == [kind |-> "none", genotypes |-> <<>>]
NoSite == [status |-> "none", site |-> "none", cause |-> "none"]

\* `create` is called with --strict only without a projection (the options
\* conflict, cli/src/create.rs); the runner of cli/src/create has no projection.
InitCreate ==
    /\ cfg \in {c \in [runner : {"site", "legacy"}, samples : SamplesOptions,
                       project : ProjectOptions, strict : BOOLEAN] :
                   /\ c.strict => ~c.project.some
                   /\ c.runner = "legacy" => ~c.project.some}
    /\ call = [op |-> "create"]
    /\ ret = Pending
    /\ pc = "start"
    /\ rd = [kind |-> "none"]
    /\ scs = [data |-> <<>>, shape |-> <<>>]
    /\ sites = 0
    /\ skipped = 0
    /\ warnings = <<>>
    /\ pos = 0
    /\ input = NoInput
    /\ last = NoSite
    /\ it = NoIter
    /\ log = <<>>

\* Create::run up to the end of Builder::build.
Build ==
    /\ pc = "start"
    /\ cfg.runner = "site"
    /\ rd' = build(cfg.samples, cfg.project, ReaderSamples)
    /\ pc' = IF rd'.kind = "reader" THEN "built"
             ELSE IF rd'.kind = "panic" THEN "panic"
             ELSE "failed"
    /\ UNCHANGED <<it, call, ret, cfg, scs, sites, skipped, warnings, pos, input, last, log>>

\* Runner::new and Runner::run up to the loop.
Run ==
    /\ pc = "built"
    /\ cfg.runner = "site"
    /\ LET zero == create_zero_scs(rd)
       IN  IF zero.panic
           THEN pc' = "panic" /\ UNCHANGED scs
           ELSE pc' = "loop" /\ scs' = [data |-> zero.data, shape |-> zero.shape]
    /\ sites' = 0
    /\ skipped' = 0
    /\ UNCHANGED <<it, call, ret, cfg, rd, warnings, pos, input, last, log>>

\* Strides::flat_index, -1 for none.
flat_index(strd, shape, index) ==
    IF Len(strd) = Len(shape) /\ Len(shape) = Len(index)
    THEN IF \A i \in 1..Len(index) : index[i] < shape[i]
         THEN flat_index_unchecked(strd, index)
         ELSE -1
    ELSE -1

\* Runner::handle_skipped_site
handle_skipped_site_lenient(strict, count) == [ok |-> TRUE, skipped |-> count + 1]

handle_skipped_site(strict, count) ==
    IF strict THEN [ok |-> FALSE, skipped |-> count]
    ELSE [ok |-> TRUE, skipped |-> count + 1]

\* Runner::handle_skipped_site: what it logs outside strict mode, info for the
\* first skipped site and debug for the later ones.
handle_skipped_site_log(strict, count, site) ==
    IF strict THEN <<>>
    ELSE IF count = 0
    THEN <<Message("info", "example", "missing and/or multiallelic genotypes", site, 0, 0)>>
    ELSE <<Message("debug", "site", "missing and/or multiallelic genotypes", site, 0, 0)>>

\* Runner::handle_skipped_samples: one trace message for each skipped sample of
\* the site just read, in the order of Reader::current_skipped_samples; the
\* message names the sample and the site. Map::get_sample has no sample for an
\* id outside the map; read_site pushes only the ids of samples of the map.
handle_skipped_samples_log(reader, site) ==
    LET get_sample(id) == IF id >= 0 /\ id < Len(reader.sample_map)
                          THEN reader.sample_map[id + 1].sample
                          ELSE "none"
    IN  [i \in 1..Len(reader.skipped_samples) |->
            Message("trace", "sample", get_sample(reader.skipped_samples[i][1]),
                    site, 0, 0)]

\* Runner::summarize_skipped
summarize_skipped(count, total) ==
    IF count > 0
    THEN <<Message("info", "summary", "missing and/or multiallelic genotypes", 0, count, total)>>
    ELSE <<>>

\* One iteration of the loop of Runner::run: read_site, the arm taken for what
\* it returns, the trace messages of handle_skipped_samples for a site that was
\* read without a panic or an error, and the site counter.
ReadSite ==
    /\ pc = "loop"
    /\ cfg.runner = "site"
    /\ \E event \in Events(pos) :
          /\ input' = event
          /\ \E r \in {read_site(rd, ReaderSamples, read_genotypes(event))} :
             LET flat == flat_index(strides(scs.shape), scs.shape, r.reader.counts)
                 h == handle_skipped_site(cfg.strict, skipped)
             IN  /\ rd' = r.reader
                 /\ pos' = pos + 1
                 /\ CASE r.status = "Read" /\ r.site = "Standard" ->
                           /\ IF flat < 0
                              THEN pc' = "panic" /\ UNCHANGED <<scs, sites>>
                              ELSE /\ scs' = [scs EXCEPT !.data[flat + 1] = RAdd(@, One)]
                                   /\ sites' = sites + 1
                                   /\ pc' = "loop"
                           /\ log' = IF flat < 0 THEN log
                                     ELSE log \o handle_skipped_samples_log(r.reader, pos)
                           /\ last' = [status |-> "Read", site |-> r.site,
                                       cause |-> "none"]
                           /\ UNCHANGED <<skipped, ret>>
                      [] r.status = "Read" /\ r.site = "Projected" ->
                           /\ scs' = [scs EXCEPT !.data =
                                         add_unchecked(scs.data, r.reader.totals,
                                                       r.reader.projection.project_to,
                                                       r.reader.counts, One)]
                           /\ sites' = sites + 1
                           /\ pc' = "loop"
                           /\ log' = log \o handle_skipped_samples_log(r.reader, pos)
                           /\ last' = [status |-> "Read", site |-> r.site,
                                       cause |-> "none"]
                           /\ UNCHANGED <<skipped, ret>>
                      [] r.status = "Read" /\ r.site = "InsufficientData" ->
                           /\ IF h.ok
                              THEN /\ skipped' = h.skipped
                                   /\ sites' = sites + 1
                                   /\ pc' = "loop"
                              ELSE /\ pc' = "error"
                                   /\ UNCHANGED <<skipped, sites>>
                           /\ last' = [status |-> "Read", site |-> r.site,
                                       cause |-> IF h.ok THEN "none" ELSE "strict"]
                           /\ log' = log \o handle_skipped_site_log(cfg.strict, skipped, pos)
                                         \o (IF h.ok
                                             THEN handle_skipped_samples_log(r.reader, pos)
                                             ELSE <<>>)
                           /\ UNCHANGED <<scs, ret>>
                      [] r.status = "Panic" ->
                           /\ pc' = "panic"
                           /\ last' = [status |-> "Panic", site |-> "none",
                                       cause |-> "none"]
                           /\ UNCHANGED <<scs, sites, skipped, ret, log>>
                      [] r.status = "Error" ->
                           /\ pc' = "error"
                           /\ last' = [status |-> "Error", site |-> "none",
                                       cause |-> IF event.kind = "io_error" THEN "reader"
                                                 ELSE "genotype"]
                           /\ UNCHANGED <<scs, sites, skipped, ret, log>>
                      [] r.status = "Done" ->
                           /\ pc' = "done"
                           /\ ret' = Returned(scs)
                           /\ last' = [status |-> "Done", site |-> "none",
                                       cause |-> "none"]
                           /\ log' = log \o summarize_skipped(skipped, sites)
                           /\ UNCHANGED <<scs, sites, skipped>>
    /\ UNCHANGED <<it, call, cfg, warnings>>

\* Runner::try_from of cli/src/create/runner.rs: the sample list.
LegacyBuild ==
    /\ pc = "start"
    /\ cfg.runner = "legacy"
    /\ rd' = IF cfg.samples.some THEN from_names(cfg.samples.list, ReaderSamples)
             ELSE from_all_samples(ReaderSamples)
    /\ pc' = IF rd'.kind = "legacy" THEN "built" ELSE "failed"
    /\ UNCHANGED <<it, call, ret, cfg, scs, sites, skipped, warnings, pos, input, last, log>>

\* Runner::run of cli/src/create/runner.rs up to the loop.
LegacyRun ==
    /\ pc = "built"
    /\ cfg.runner = "legacy"
    /\ scs' = [data |-> [i \in 1..Elements(SampleListShape(rd.sample_list)) |-> Zero],
               shape |-> SampleListShape(rd.sample_list)]
    /\ warnings' = <<0, 0, 0, 0>>
    /\ pc' = "loop"
    /\ UNCHANGED <<it, call, ret, cfg, rd, sites, skipped, pos, input, last, log>>

\* One iteration of that loop: read_genotype_subset and the arm taken.
LegacyRead ==
    /\ pc = "loop"
    /\ cfg.runner = "legacy"
    /\ \E event \in Events(pos) :
          /\ input' = event
          /\ pos' = pos + 1
          /\ CASE event.kind = "io_error" ->
                    /\ pc' = "error"
                    /\ last' = [status |-> "Error", site |-> "none",
                                    cause |-> "reader"]
                    /\ UNCHANGED <<scs, warnings, ret, log>>
               [] event.kind = "eof" ->
                    /\ pc' = "done"
                    /\ ret' = Returned(scs)
                    /\ last' = [status |-> "Done", site |-> "none",
                                    cause |-> "none"]
                    /\ log' = log \o summarize(warnings)
                    /\ UNCHANGED <<scs, warnings>>
               [] event.kind = "record" ->
                    \E genotypes \in {try_subset_from_iter(event.genotypes, rd.sample_list)} :
                    \E flat \in {flat_index(strides(scs.shape), scs.shape,
                                    allele_counts_add(genotypes.genotypes, rd.sample_list,
                                                      Len(scs.shape)))} :
                       IF genotypes.ok
                       THEN /\ IF flat < 0
                               THEN pc' = "panic" /\ UNCHANGED scs
                               ELSE /\ scs' = [scs EXCEPT !.data[flat + 1] = RAdd(@, One)]
                                    /\ pc' = "loop"
                            /\ last' = [status |-> "Read", site |-> "Standard",
                                    cause |-> "none"]
                            /\ UNCHANGED <<warnings, ret, log>>
                       ELSE IF cfg.strict
                       THEN /\ pc' = "error"
                            /\ last' = [status |-> "Read", site |-> "none",
                                    cause |-> "strict"]
                            /\ UNCHANGED <<scs, warnings, ret, log>>
                       ELSE /\ warnings' = warn_once(warnings, genotypes.error)
                            /\ log' = log \o warn_once_log(warnings, genotypes.error, pos)
                            /\ pc' = "loop"
                            /\ last' = [status |-> "Read", site |-> "none",
                                    cause |-> "none"]
                            /\ UNCHANGED <<scs, ret>>
    /\ UNCHANGED <<it, call, cfg, rd, sites, skipped>>

Next == Build \/ Run \/ ReadSite \/ LegacyBuild \/ LegacyRun \/ LegacyRead

Spec == InitCreate /\ [][Next]_vars

\* The site runner alone, on one or two populations without a projection or
\* with a projection to extents 2 and 3, under weak fairness: a run that can
\* take a step takes one.
InitLive ==
    /\ InitCreate
    /\ cfg.runner = "site"
    /\ cfg.samples \in {NoSamples, [some |-> TRUE, list |-> <<<<"s0", "A">>, <<"s1", "B">>>>]}
    /\ cfg.project.some =>
           /\ cfg.project.kind = "Shape"
           /\ \A d \in 1..Len(cfg.project.v) : cfg.project.v[d] \in {2, 3}

NextSite == Build \/ Run \/ ReadSite

SpecLive == InitLive /\ [][NextSite]_vars /\ WF_vars(NextSite)

(***************************************************************************)
(* Properties of the site reader and the runner.                           *)
(***************************************************************************)
\* A genotype that is called: diploid, both alleles present, at most two
\* alternative alleles in all.
IsCalled(g) ==
    /\ g.some
    /\ Len(g.alleles) = 2
    /\ g.alleles[1] >= 0
    /\ g.alleles[2] >= 0
    /\ g.alleles[1] + g.alleles[2] <= 2

\* A genotype that is not diploid.
IsNotDiploid(g) == g.some /\ Len(g.alleles) # 2

\* The samples of the input that the sample map assigns to a population.
Mapped(sample_map) ==
    {i \in 1..Len(ReaderSamples) :
        \E j \in 1..Len(sample_map) : sample_map[j].sample = ReaderSamples[i]}

EntryOf(sample_map, i) ==
    CHOOSE j \in 1..Len(sample_map) : sample_map[j].sample = ReaderSamples[i]

\* The alleles observed in population p (0-based) at a record: two for every
\* sample of p with a called genotype.
ObservedTotal(sample_map, genotypes, p) ==
    2 * Cardinality({i \in Mapped(sample_map) :
                        /\ sample_map[EntryOf(sample_map, i)].id = p
                        /\ IsCalled(genotypes[i])})

\* read_site has classified the latest record under a projection.
ClassifiedWithProjection ==
    /\ cfg.runner = "site"
    /\ rd.kind = "reader"
    /\ rd.projection.some
    /\ last.status = "Read"

\* C1: with a projection to target allele counts t, a site with observed totals
\* T is Standard iff T[p] = t[p] for every population p, Projected iff
\* T[p] >= t[p] for every p and T[p] > t[p] for some p, InsufficientData iff
\* T[p] < t[p] for some p; exactly one of the three holds.
C1_ClassifyWithProjection ==
    ClassifiedWithProjection =>
        LET t == rd.projection.project_to
            P == 1..Len(t)
            T == [p \in P |-> ObservedTotal(rd.sample_map, input.genotypes, p - 1)]
        IN  /\ rd.totals = T
            /\ last.site \in {"Standard", "Projected", "InsufficientData"}
            /\ (last.site = "Standard") <=> (\A p \in P : T[p] = t[p])
            /\ (last.site = "Projected") <=>
                   ((\A p \in P : T[p] >= t[p]) /\ (\E p \in P : T[p] > t[p]))
            /\ (last.site = "InsufficientData") <=> (\E p \in P : T[p] < t[p])

\* Two populations projected to shape 3x2: s1 = 0/1 in the first population
\* gives total 2 = t, s0 = 1/1 in the second gives total 2 > t = 1: Projected.
C1_Witness ==
    /\ ClassifiedWithProjection
    /\ cfg.samples.some
    /\ cfg.samples.list = <<<<"s1", "A">>, <<"s0", "B">>>>
    /\ rd.projection.project_to = <<2, 1>>
    /\ input.genotypes = <<VcfGenotype(<<1, 1>>), VcfGenotype(<<0, 1>>)>>
    /\ rd.totals = <<2, 2>>
    /\ rd.counts = <<1, 2>>
    /\ last.site = "Projected"

(***************************************************************************)
(* Construction of a projection: Projection::from_shapes on two shapes,    *)
(* next to the construction of the site reader by `create`.                *)
(***************************************************************************)
\* Shapes of no, one or two dimensions with extents from zero.
ShapesFromZero == UNION {[1..k -> 0..MaxDim] : k \in 0..2}

InitFromShapes ==
    /\ call \in [op : {"from_shapes"}, project_from : ShapesFromZero,
                 project_to : ShapesFromZero]
    /\ ret = Pending
    /\ NoRun

FromShapes ==
    /\ call.op = "from_shapes"
    /\ ~ret.done
    /\ ret' = Returned(from_shapes(call.project_from, call.project_to))
    /\ UNCHANGED <<it, call, runVars>>

SpecConstruct == (InitFromShapes \/ InitCreate) /\ [][FromShapes \/ Next]_vars

\* What can be wrong with a projection from one shape to another.
UnequalDimensions(from, to) == Len(from) # Len(to)
ExceedsSource(from, to) ==
    \E d \in 1..Len(from) : d <= Len(to) /\ to[d] > from[d]
HasZero(shape) == \E d \in 1..Len(shape) : shape[d] = 0

\* The error names something that is wrong with the projection.
NamesFault(err, from, to, zero) ==
    /\ err \in {"UnequalDimensions", "InvalidProjection", "Zero"}
    /\ err = "UnequalDimensions" => UnequalDimensions(from, to)
    /\ err = "InvalidProjection" => ExceedsSource(from, to)
    /\ err = "Zero" => zero

\* The source has no dimensions and the target has some.
EmptySource(from, to) == Len(from) = 0 /\ Len(to) > 0

\* The error names something that is wrong with the projection, Empty being
\* the error for a source without dimensions and UnequalDimensions the one for
\* any other difference in the number of dimensions.
NamesFaultOrEmpty(err, from, to, zero) ==
    /\ err \in {"UnequalDimensions", "InvalidProjection", "Zero", "Empty"}
    /\ err = "UnequalDimensions" => UnequalDimensions(from, to) /\ ~EmptySource(from, to)
    /\ err = "InvalidProjection" => ExceedsSource(from, to)
    /\ err = "Zero" => zero
    /\ err = "Empty" => EmptySource(from, to)
    /\ (EmptySource(from, to) /\ ~zero) => err = "Empty"

\* The sample map of the options, when it is not empty, names no unknown
\* sample and gives every population id a sample.
OptionsMap == IF cfg.samples.some THEN from_iter(cfg.samples.list) ELSE from_all(ReaderSamples)
UsableMap ==
    /\ Len(OptionsMap) > 0
    /\ \A j \in 1..Len(OptionsMap) : \E i \in 1..Len(ReaderSamples) :
           OptionsMap[j].sample = ReaderSamples[i]
    /\ ~MapShape(OptionsMap).panic

\* C6 as stated: a projection with unequal dimensions, with a target dimension
\* above the source dimension or with a zero-size dimension is rejected when
\* the projection or the site reader is constructed, with an error that is
\* UnequalDimensions, InvalidProjection or Zero and names what is wrong, and
\* nothing is read from the genotype stream after a failed build.
C6_InvalidProjectionRejected ==
    /\ (call.op = "from_shapes" /\ ret.done) =>
           LET from == call.project_from
               to == call.project_to
               zero == HasZero(from) \/ HasZero(to)
           IN  /\ ret.v.ok <=>
                      ~(UnequalDimensions(from, to) \/ ExceedsSource(from, to) \/ zero)
               /\ ~ret.v.ok => NamesFault(ret.v.err, from, to, zero)
    /\ (call.op = "create" /\ pc # "start" /\ cfg.project.some /\ UsableMap) =>
           LET from == MapShape(OptionsMap).shape
               to == IF cfg.project.kind = "Individuals"
                     THEN [d \in 1..Len(cfg.project.v) |-> 2 * cfg.project.v[d] + 1]
                     ELSE cfg.project.v
           IN  /\ (rd.kind = "error") <=>
                      (UnequalDimensions(from, to) \/ ExceedsSource(from, to) \/ HasZero(to))
               /\ rd.kind = "error" => NamesFault(rd.err, from, to, HasZero(to))
    /\ (call.op = "create" /\ rd.kind = "error") =>
           /\ pc = "failed"
           /\ pos = 0
           /\ sites = 0
           /\ input = NoInput
           /\ last = NoSite

\* C6: a projection with unequal dimensions, with a target dimension above the
\* source dimension or with a zero-size dimension is rejected when the
\* projection or the site reader is constructed, and nothing is read from the
\* genotype stream after a failed build; the error names what is wrong, and
\* it is Empty, not UnequalDimensions, when the source has no dimensions, the
\* target has some and no target dimension has size zero.
C6_RejectedAtConstruction ==
    /\ (call.op = "from_shapes" /\ ret.done) =>
           LET from == call.project_from
               to == call.project_to
               zero == HasZero(from) \/ HasZero(to)
           IN  /\ ret.v.ok <=>
                      ~(UnequalDimensions(from, to) \/ ExceedsSource(from, to) \/ zero)
               /\ ~ret.v.ok => NamesFaultOrEmpty(ret.v.err, from, to, zero)
    /\ (call.op = "create" /\ pc # "start" /\ cfg.project.some /\ UsableMap) =>
           LET from == MapShape(OptionsMap).shape
               to == IF cfg.project.kind = "Individuals"
                     THEN [d \in 1..Len(cfg.project.v) |-> 2 * cfg.project.v[d] + 1]
                     ELSE cfg.project.v
           IN  /\ (rd.kind = "error") <=>
                      (UnequalDimensions(from, to) \/ ExceedsSource(from, to) \/ HasZero(to))
               /\ rd.kind = "error" => NamesFaultOrEmpty(rd.err, from, to, HasZero(to))
    /\ (call.op = "create" /\ rd.kind = "error") =>
           /\ pc = "failed"
           /\ pos = 0
           /\ sites = 0
           /\ input = NoInput
           /\ last = NoSite

\* Projection::from_shapes from a shape without dimensions to the shape 2 has
\* returned the error Empty.
C6_EmptySource ==
    /\ call.op = "from_shapes"
    /\ call.project_from = <<>>
    /\ call.project_to = <<2>>
    /\ ret.done
    /\ ~ret.v.ok
    /\ ret.v.err = "Empty"

\* Both samples in one population (shape 5) and a projection to shape 6: the
\* build has failed with InvalidProjection in dimension 0, nothing was read.
C6_Witness ==
    /\ call.op = "create"
    /\ ~cfg.samples.some
    /\ cfg.project.some
    /\ cfg.project.kind = "Shape"
    /\ cfg.project.v = <<6>>
    /\ rd.kind = "error"
    /\ rd.err = "InvalidProjection"
    /\ rd.dimension = 0
    /\ pc = "failed"
    /\ pos = 0

(***************************************************************************)
(* Errors and skipped sites in the loop of Runner::run.                    *)
(***************************************************************************)
\* The step is an iteration of the loop of the site runner.
SiteStep == pc = "loop" /\ cfg.runner = "site" /\ pos' = pos + 1

\* The record has a genotype that is not diploid in a sample of the map.
HardErrorRecord(event, sample_map) ==
    /\ event.kind = "record"
    /\ \E i \in Mapped(sample_map) : IsNotDiploid(event.genotypes[i])

\* C7: when the genotype of a sample of the population map is not diploid,
\* read_site returns Error and the run ends with an error, in strict mode and
\* in non-strict mode; the site is neither counted nor skipped.
C7_HardErrorAborts ==
    [][(SiteStep /\ HardErrorRecord(input', rd.sample_map)) =>
           /\ last'.status = "Error"
           /\ pc' = "error"
           /\ scs' = scs
           /\ sites' = sites
           /\ skipped' = skipped
           /\ ~ret'.done]_vars

\* Non-strict mode, sample s1 alone in the map: after one counted site the
\* record with a haploid genotype in s1 has ended the run with an error.
C7_Witness ==
    /\ cfg.runner = "site"
    /\ ~cfg.strict
    /\ cfg.samples.some
    /\ cfg.samples.list = <<<<"s1", "A">>>>
    /\ input.kind = "record"
    /\ input.genotypes = <<VcfGenotype(<<0, 1>>), VcfGenotype(<<1>>)>>
    /\ last.status = "Error"
    /\ pc = "error"
    /\ sites = 1
    /\ skipped = 0

\* C9: at a site classified InsufficientData the run returns an error in strict
\* mode and no later site is read; in non-strict mode the spectrum is unchanged,
\* the skipped-site counter grows by exactly one and reading continues.
C9_InsufficientData ==
    /\ [][(SiteStep /\ last'.status = "Read" /\ last'.site = "InsufficientData") =>
             IF cfg.strict
             THEN pc' = "error" /\ scs' = scs /\ skipped' = skipped /\ sites' = sites
             ELSE pc' = "loop" /\ scs' = scs /\ skipped' = skipped + 1
                  /\ sites' = sites + 1]_vars
    /\ [][(cfg.runner = "site" /\ pc = "error") => pos' = pos]_vars

\* Non-strict mode without a projection: the second site has a missing genotype
\* and was skipped, the spectrum still holds the first site only.
C9_Witness ==
    /\ cfg.runner = "site"
    /\ ~cfg.strict
    /\ ~cfg.project.some
    /\ ~cfg.samples.some
    /\ last.status = "Read"
    /\ last.site = "InsufficientData"
    /\ input.genotypes = <<VcfGenotype(<<0, 1>>), NoGenotype>>
    /\ pc = "loop"
    /\ sites = 2
    /\ skipped = 1
    /\ scs.data = <<Zero, Zero, One, Zero, Zero>>

(***************************************************************************)
(* A genotype that is not diploid, in the two runners.                     *)
(***************************************************************************)
\* The samples of the input that the run selects.
Selected ==
    IF cfg.runner = "legacy" THEN {i \in 1..Len(ReaderSamples) : rd.sample_list[i] >= 0}
    ELSE Mapped(rd.sample_map)

\* The sites skipped and tallied so far.
Tally == skipped + IntSum(warnings)

\* The step is an iteration of the loop of either runner on a record with a
\* genotype that is not diploid in a selected sample.
NotDiploidStep ==
    /\ pc = "loop"
    /\ pos' = pos + 1
    /\ input'.kind = "record"
    /\ \E i \in Selected : IsNotDiploid(input'.genotypes[i])

\* A genotype that is not diploid is fatal only in strict mode, otherwise the
\* site is skipped and tallied and the run continues.
C8_FatalOnlyInStrictMode ==
    [][NotDiploidStep =>
          IF cfg.strict THEN pc' = "error"
          ELSE pc' = "loop" /\ scs' = scs /\ Tally' = Tally + 1]_vars

\* C8: with the site reader a genotype that is not diploid in a sample of the
\* map ends the run with an error in strict and in non-strict mode, and a site
\* is skipped and counted in non-strict mode only when it is classified
\* InsufficientData; the runner of cli/src/create/runner.rs alone ends the run
\* in strict mode only and otherwise skips the record, tallies it and goes on.
C8_NotDiploid ==
    /\ [][NotDiploidStep =>
             IF cfg.runner = "legacy"
             THEN IF cfg.strict
                  THEN pc' = "error" /\ scs' = scs /\ Tally' = Tally
                  ELSE pc' = "loop" /\ scs' = scs /\ Tally' = Tally + 1
             ELSE pc' = "error" /\ scs' = scs /\ Tally' = Tally]_vars
    /\ [][(SiteStep /\ skipped' # skipped) =>
             /\ ~cfg.strict
             /\ skipped' = skipped + 1
             /\ last'.site = "InsufficientData"
             /\ \A i \in Selected : ~IsNotDiploid(input'.genotypes[i])
             /\ \E i \in Selected : ~IsCalled(input'.genotypes[i])]_vars

\* The runner of cli/src/create/runner.rs in non-strict mode: the record with a
\* haploid genotype was tallied as not diploid and the run goes on.
C8_Witness ==
    /\ cfg.runner = "legacy"
    /\ ~cfg.strict
    /\ ~cfg.samples.some
    /\ input.kind = "record"
    /\ input.genotypes = <<VcfGenotype(<<0, 1>>), VcfGenotype(<<1>>)>>
    /\ warnings = <<0, 0, 0, 1>>
    /\ pc = "loop"
    /\ pos = 1

(***************************************************************************)
(* Termination of the loop of Runner::run.                                 *)
(***************************************************************************)
Terminal == pc \in {"done", "error"}

\* What ends the run of the site runner at the record or event just read.
FatalRead(event, l) ==
    \/ event.kind = "io_error"
    \/ HardErrorRecord(event, rd.sample_map)
    \/ cfg.strict /\ l.status = "Read" /\ l.site = "InsufficientData"

\* The site just read was counted, projected or dropped.
Resolved ==
    /\ sites' = sites + 1
    /\ \/ /\ last'.site \in {"Standard", "Projected"}
          /\ SpectrumSum(scs'.data) = RAdd(SpectrumSum(scs.data), One)
          /\ skipped' = skipped
       \/ /\ last'.site = "InsufficientData"
          /\ scs' = scs
          /\ skipped' = skipped + 1

\* The run ends in Error only on an error reported by the genotype reader or by
\* read_site.
C10_ErrorOnlyWhenReported ==
    (cfg.runner = "site" /\ pc = "error") =>
        (input.kind = "io_error" \/ HardErrorRecord(input, rd.sample_map))

\* C10: on every finite genotype stream the loop ends in exactly one of Done,
\* returning the spectrum when the stream is exhausted, and Error, at the first
\* error of the genotype reader or of read_site or, in strict mode, at the first
\* InsufficientData site; nothing is read after the end, and every site is
\* counted, projected or dropped before the next one is read.
C10_Terminates ==
    /\ [][SiteStep =>
             /\ pc' \in {"loop", "done", "error"}
             /\ (pc' = "done") <=> (input' = EndOfInput)
             /\ (pc' = "error") <=> FatalRead(input', last')
             /\ pc' = "done" => (ret'.done /\ ret'.v = scs /\ scs' = scs)
             /\ pc' = "loop" => Resolved]_vars
    /\ [][(cfg.runner = "site" /\ Terminal) => (pos' = pos /\ pc' = pc /\ scs' = scs)]_vars
    /\ (cfg.runner = "site" /\ pc = "loop") ~> Terminal

\* Strict mode: the first site was counted, the second has a missing genotype
\* and ended the run with an error after two reads.
C10_Witness ==
    /\ cfg.runner = "site"
    /\ cfg.strict
    /\ pc = "error"
    /\ last.status = "Read"
    /\ last.site = "InsufficientData"
    /\ last.cause = "strict"
    /\ pos = 2
    /\ sites = 1

(***************************************************************************)
(* Classification of a site without a projection.                          *)
(***************************************************************************)
\* A genotype that is skipped: absent, with a missing allele, or with more
\* than two alternative alleles in all.
IsSkipped(g) == ~IsCalled(g) /\ ~IsNotDiploid(g)

\* read_site has classified the latest record without a projection.
ClassifiedWithoutProjection ==
    /\ cfg.runner = "site"
    /\ rd.kind = "reader"
    /\ ~rd.projection.some
    /\ last.status = "Read"

\* C11: without a projection a site is Standard, and counted once, iff no
\* sample of the population map has a skipped genotype; with a skipped genotype
\* in a sample of the map it is InsufficientData and leaves the spectrum as it
\* was.
C11_ClassifyWithoutProjection ==
    /\ [](ClassifiedWithoutProjection =>
             /\ last.site \in {"Standard", "InsufficientData"}
             /\ (last.site = "Standard") <=>
                    (\A i \in Mapped(rd.sample_map) : IsCalled(input.genotypes[i]))
             /\ (last.site = "InsufficientData") <=>
                    (\E i \in Mapped(rd.sample_map) : IsSkipped(input.genotypes[i])))
    /\ [][(SiteStep /\ ~rd.projection.some /\ last'.status = "Read") =>
             IF last'.site = "Standard"
             THEN /\ pc' = "loop"
                  /\ sites' = sites + 1
                  /\ SpectrumSum(scs'.data) = RAdd(SpectrumSum(scs.data), One)
             ELSE scs' = scs]_vars

\* Sample s1 alone in the map: the record has no genotype for s0, which is not
\* in the map, and 0/1 for s1; the site is Standard and was counted.
C11_Witness ==
    /\ ClassifiedWithoutProjection
    /\ cfg.samples.some
    /\ cfg.samples.list = <<<<"s1", "A">>>>
    /\ input.genotypes = <<NoGenotype, VcfGenotype(<<0, 1>>)>>
    /\ last.site = "Standard"
    /\ sites = 1
    /\ scs.data = <<Zero, One, Zero>>

(***************************************************************************)
(* Array::sum applied to an array and one of its axes.  usize arithmetic   *)
(* that goes below zero panics in a build with overflow checks and wraps   *)
(* in a build without them; the build is part of the call.                 *)
(***************************************************************************)
\* Iter::next computes self.view.dimensions() - 1: below zero for a view
\* without dimensions, which is what an axis of a one-dimensional array gives.
NextOverflows(view, overflow_checks) == overflow_checks /\ Len(view.shape) = 0

\* Array::sum: the reduced array, or a panic when the element iterator of one
\* of the views is asked for an item and its subtraction overflows.  Without
\* overflow checks the subtraction wraps and the first call of impl_next_rec
\* returns the first element of the view before it looks at the axis.
sum(data, shape, axis, overflow_checks) ==
    LET views == AxisViews(data, shape, axis, 0)
    IN  IF \E k \in 1..Len(views) : NextOverflows(views[k], overflow_checks)
        THEN [panic |-> TRUE, data |-> <<>>, shape |-> <<>>]
        ELSE [panic |-> FALSE,
              data |-> ArraySum(data, shape, axis).data,
              shape |-> ArraySum(data, shape, axis).shape]

InitSum ==
    /\ \E shape \in Shapes :
       \E data \in DataOf(Elements(shape)) :
       \E axis \in 0..(Len(shape) - 1) :
       \E overflow_checks \in BOOLEAN :
          call = [op |-> "sum", shape |-> shape, data |-> data, axis |-> axis,
                  overflow_checks |-> overflow_checks]
    /\ ret = Pending
    /\ NoRun

Sum ==
    /\ call.op = "sum"
    /\ ~ret.done
    /\ ret' = Returned(sum(call.data, call.shape, call.axis, call.overflow_checks))
    /\ UNCHANGED <<it, call, runVars>>

SpecSum == InitSum /\ [][Sum]_vars

\* C12: for every array and every axis below its number of dimensions, sum
\* returns an array of one dimension less whose shape is the array's shape
\* without that axis and whose every cell is the sum of the array's cells along
\* that axis, the other coordinates held fixed.
C12_SumOverAxis ==
    (call.op = "sum" /\ ret.done) =>
        LET kept == KeptFrom(Len(call.shape), {call.axis}, 1)
            keptShape == [k \in 1..Len(kept) |-> call.shape[kept[k]]]
        IN  /\ ~ret.v.panic
            /\ Len(ret.v.shape) = Len(call.shape) - 1
            /\ ret.v.shape = keptShape
            /\ Len(ret.v.data) = Elements(keptShape)
            /\ \A r \in 0..(Elements(keptShape) - 1) :
                  ret.v.data[r + 1] =
                     MarginalCell(call.data, call.shape, kept, keptShape, r)

\* The same for arrays of two or more dimensions, and for arrays of one
\* dimension in a build without overflow checks.
C12_SumWithoutOverflow ==
    (call.op = "sum" /\ ret.done /\ (Len(call.shape) >= 2 \/ ~call.overflow_checks)) =>
        LET kept == KeptFrom(Len(call.shape), {call.axis}, 1)
            keptShape == [k \in 1..Len(kept) |-> call.shape[kept[k]]]
        IN  /\ ~ret.v.panic
            /\ ret.v.shape = keptShape
            /\ \A r \in 0..(Elements(keptShape) - 1) :
                  ret.v.data[r + 1] =
                     MarginalCell(call.data, call.shape, kept, keptShape, r)

\* The range array of three cells summed over its only axis in a build with
\* overflow checks: the call has panicked.
C12_Panics ==
    /\ call.op = "sum"
    /\ ret.done
    /\ call.shape = <<3>>
    /\ call.data = RangeData(3)
    /\ call.axis = 0
    /\ call.overflow_checks
    /\ ret.v.panic

(***************************************************************************)
(* A flat position turned into a multi-index by                            *)
(* Shape::index_from_flat_unchecked and back by Strides::flat_index.       *)
(***************************************************************************)
\* Every shape with every flat position from 0 to one past the last.
InitIndex ==
    /\ \E shape \in Shapes : \E flat \in 0..Elements(shape) :
          call = [op |-> "index", shape |-> shape, flat |-> flat]
    /\ ret = Pending
    /\ NoRun

RoundTrip ==
    /\ call.op = "index"
    /\ ~ret.done
    /\ \E index \in {index_from_flat_unchecked(call.shape, call.flat)} :
          ret' = Returned([index |-> index,
                           strides |-> strides(call.shape),
                           flat |-> flat_index(strides(call.shape), call.shape, index)])
    /\ UNCHANGED <<it, call, runVars>>

SpecIndex == InitIndex /\ [][RoundTrip]_vars

\* C13: for every shape with extents of one or more and every flat position
\* below the number of elements, the multi-index of the position has every
\* component below its extent and its flat index is the position again; the
\* flat index is the sum of index[d] * strides[d], the last stride is 1 and
\* every other stride is the next stride times the next extent.
C13_RoundTrip ==
    (call.op = "index" /\ ret.done /\ call.flat < Elements(call.shape)) =>
        LET n == Len(call.shape)
        IN  /\ Len(ret.v.index) = n
            /\ \A d \in 1..n : ret.v.index[d] >= 0 /\ ret.v.index[d] < call.shape[d]
            /\ ret.v.flat = call.flat
            /\ Len(ret.v.strides) = n
            /\ ret.v.strides[n] = 1
            /\ \A d \in 1..(n - 1) :
                  ret.v.strides[d] = ret.v.strides[d + 1] * call.shape[d + 1]
            /\ call.flat = IntSum([d \in 1..n |-> ret.v.index[d] * ret.v.strides[d]])

\* Position 7 of shape 2x3x2 is the multi-index (1, 0, 1) under the strides
\* (6, 2, 1), and 6 + 0 + 1 is 7.
C13_Witness ==
    /\ call.op = "index"
    /\ ret.done
    /\ call.shape = <<2, 3, 2>>
    /\ call.flat = 7
    /\ ret.v.index = <<1, 0, 1>>
    /\ ret.v.strides = <<6, 2, 1>>
    /\ ret.v.flat = 7

(***************************************************************************)
(* The requests Spectrum::marginalize rejects.                             *)
(***************************************************************************)
HasDuplicate(axes) == \E i, j \in 1..Len(axes) : i # j /\ axes[i] = axes[j]
HasOutOfBounds(axes, dimensions) == \E i \in 1..Len(axes) : axes[i] >= dimensions
TooMany(axes, dimensions) == Len(axes) >= dimensions

\* C14: marginalize returns an error and no spectrum when an axis occurs more
\* than once (DuplicateAxis), when an axis is not below the number of
\* dimensions (AxisOutOfBounds), and when there are as many axes as dimensions
\* or more (TooManyAxes); the error names something that is wrong with the
\* request, the first of the three in that order; every other request is Ok.
C14_MarginalizeRejects ==
    (call.op = "marginalize" /\ ret.done) =>
        LET dimensions == Len(call.shape)
            dup == HasDuplicate(call.axes)
            oob == HasOutOfBounds(call.axes, dimensions)
            many == TooMany(call.axes, dimensions)
        IN  /\ ret.v.ok <=> ~(dup \/ oob \/ many)
            /\ ret.v.ok => "spectrum" \in DOMAIN ret.v
            /\ ~ret.v.ok =>
                  /\ "spectrum" \notin DOMAIN ret.v
                  /\ ret.v.err \in {"DuplicateAxis", "AxisOutOfBounds", "TooManyAxes"}
                  /\ (ret.v.err = "DuplicateAxis") <=> dup
                  /\ (ret.v.err = "AxisOutOfBounds") <=> (~dup /\ oob)
                  /\ (ret.v.err = "TooManyAxes") <=> (~dup /\ ~oob /\ many)
                  /\ ret.v.err = "DuplicateAxis" =>
                         \E i, j \in 1..Len(call.axes) :
                            i # j /\ call.axes[i] = ret.v.axis /\ call.axes[j] = ret.v.axis
                  /\ ret.v.err = "AxisOutOfBounds" =>
                         /\ ret.v.axis >= dimensions
                         /\ \E i \in 1..Len(call.axes) : call.axes[i] = ret.v.axis

\* Both axes of a 2x3 spectrum, in bounds and without duplicates: TooManyAxes.
C14_Witness ==
    /\ call.op = "marginalize"
    /\ ret.done
    /\ call.shape = <<2, 3>>
    /\ call.axes = <<1, 0>>
    /\ ~ret.v.ok
    /\ ret.v.err = "TooManyAxes"

(***************************************************************************)
(* Array::get_axis applied to an array, an axis and an index, in and out   *)
(* of bounds.                                                              *)
(***************************************************************************)
InitGetAxis ==
    /\ \E shape \in Shapes :
       \E axis \in 0..(Len(shape) + 1) :
       \E index \in 0..MaxDim :
          call = [op |-> "get_axis", shape |-> shape,
                  data |-> RangeData(Elements(shape)), axis |-> axis, index |-> index]
    /\ ret = Pending
    /\ NoRun

GetAxis ==
    /\ call.op = "get_axis"
    /\ ~ret.done
    /\ ret' = Returned(get_axis(call.data, call.shape, call.axis, call.index))
    /\ UNCHANGED <<it, call, runVars>>

SpecGetAxis == InitGetAxis /\ [][GetAxis]_vars

\* The view is the array with the axis fixed to the index: its shape is the
\* array's without the axis, and the array cell at every position with that
\* coordinate on the axis is the cell the view's offset and strides give for
\* the remaining coordinates.
AxisFixed(view, shape, axis, index) ==
    LET kept == KeptFrom(Len(shape), {axis}, 1)
    IN  /\ view.kind = "view"
        /\ view.shape = [k \in 1..Len(kept) |-> shape[kept[k]]]
        /\ Len(view.strides) = Len(kept)
        /\ \A i \in 0..(Elements(shape) - 1) :
              CoordOf(shape, i, axis + 1) = index =>
                  i = view.offset
                      + IntSum([k \in 1..Len(kept) |->
                                   CoordOf(shape, i, kept[k]) * view.strides[k]])

\* C15: get_axis returns None, and does not panic, when the axis is not below
\* the number of dimensions or the index is not below the extent of the axis;
\* otherwise it returns the view with the axis fixed to the index.
C15_GetAxis ==
    (call.op = "get_axis" /\ ret.done) =>
        IF call.axis >= Len(call.shape) THEN ret.v.kind = "none"
        ELSE IF call.index >= call.shape[call.axis + 1] THEN ret.v.kind = "none"
        ELSE AxisFixed(ret.v, call.shape, call.axis, call.index)

\* The same for every axis other than the number of dimensions itself.
C15_GetAxisOffTheEdge ==
    (call.op = "get_axis" /\ ret.done /\ call.axis # Len(call.shape)) =>
        IF call.axis > Len(call.shape) THEN ret.v.kind = "none"
        ELSE IF call.index >= call.shape[call.axis + 1] THEN ret.v.kind = "none"
        ELSE AxisFixed(ret.v, call.shape, call.axis, call.index)

\* Axis 2 of an array of shape 2x3: the guard axis > dimensions lets it pass
\* and shape[2] is out of bounds.
C15_Panics ==
    /\ call.op = "get_axis"
    /\ ret.done
    /\ call.shape = <<2, 3>>
    /\ call.axis = 2
    /\ call.index = 0
    /\ ret.v.kind = "panic"

(***************************************************************************)
(* The iterators of an array (core/src/array/iter.rs,                      *)
(* core/src/array/view/iter.rs).  `it` is the iterator at hand with, next  *)
(* to its own fields, the record of what its next() has returned so far.   *)
(***************************************************************************)
\* Iterators made in one behaviour, and calls of next() made after the first None.
MaxIters == 2
MaxExtra == 2

\* A new iterator with the given fields; nothing has been asked of it yet.
Fresh(fields) ==
    [calls |-> 0, yielded |-> <<>>, item |-> NoneCell, nones |-> 0, extra |-> 0,
     panic |-> FALSE, made |-> it.made + 1] @@ fields

\* The iterator after a call of next() that left it as `iter` and returned `item`.
Observed(iter, item) ==
    [iter EXCEPT !.calls = it.calls + 1,
                 !.item = item,
                 !.yielded = IF item.some THEN Append(it.yielded, item.v) ELSE it.yielded,
                 !.nones = IF item.some THEN it.nones ELSE it.nones + 1,
                 !.extra = IF it.nones > 0 THEN it.extra + 1 ELSE it.extra]

\* The iterator after a call of next() that panicked.
Panicked(iter) == [iter EXCEPT !.calls = it.calls + 1, !.panic = TRUE]

InitIter ==
    /\ call \in [op : {"iter"}, shape : Shapes, overflow_checks : BOOLEAN]
    /\ ret = Pending
    /\ NoRun

\* IndicesIter::size_hint (a variant that reports the total is IndicesSizeHintTotal).
IndicesSizeHintTotal(iter) == iter.total

IndicesSizeHint(iter) == iter.total - iter.index

\* Array::iter_indices: IndicesIter::new, from_shape.
IterIndices ==
    /\ call.op = "iter"
    /\ it.made < MaxIters
    /\ it' = Fresh([kind |-> "indices", index |-> 0, total |-> Elements(call.shape)])
    /\ UNCHANGED <<call, ret, runVars>>

\* IndicesIter::next
IndicesNext ==
    /\ it.kind = "indices"
    /\ it.extra < MaxExtra
    /\ it' = IF it.index < it.total
             THEN Observed([it EXCEPT !.index = it.index + 1],
                           [some |-> TRUE,
                            v |-> index_from_flat_unchecked(call.shape, (it.index + 1) - 1)])
             ELSE Observed(it, [some |-> FALSE, v |-> <<>>])
    /\ UNCHANGED <<call, ret, runVars>>

\* AxisIter::size_hint
AxisSizeHint(shape, iter) == shape[iter.axis + 1]

\* Array::iter_axis: AxisIter::new.
IterAxis ==
    /\ call.op = "iter"
    /\ it.made < MaxIters
    /\ \E axis \in 0..(Len(call.shape) - 1) :
           it' = Fresh([kind |-> "axis", axis |-> axis, index |-> 0])
    /\ UNCHANGED <<call, ret, runVars>>

\* AxisIter::next
AxisNext ==
    /\ it.kind = "axis"
    /\ it.extra < MaxExtra
    /\ \E view \in {get_axis(RangeData(Elements(call.shape)), call.shape, it.axis, it.index)} :
           it' = IF view.kind = "none" THEN Observed(it, [some |-> FALSE, v |-> NoneView])
                 ELSE IF view.kind = "panic" THEN Panicked(it)
                 ELSE Observed([it EXCEPT !.index = it.index + 1],
                               [some |-> TRUE, v |-> view])
    /\ UNCHANGED <<call, ret, runVars>>

\* Iter::size_hint of a view's element iterator: elements() - index in usize.
\* Below zero the subtraction panics where overflow is checked and otherwise
\* wraps to 2^64 - below.
ViewSizeHint(view, st, overflow_checks) ==
    LET n == Elements(view.shape) - st.index
    IN  IF n >= 0 THEN [kind |-> "len", n |-> n]
        ELSE IF overflow_checks THEN [kind |-> "panic"]
        ELSE [kind |-> "wrapped", below |-> 0 - n]

\* View::iter, Iter::new, on a view that Array::get_axis gave.
IterView ==
    /\ call.op = "iter"
    /\ it.made < MaxIters
    /\ \E axis \in 0..(Len(call.shape) - 1) :
       \E index \in 0..(call.shape[axis + 1] - 1) :
           it' = Fresh([kind |-> "view", axis |-> axis, at |-> index,
                        view |-> get_axis(RangeData(Elements(call.shape)), call.shape, axis, index),
                        st |-> ViewIterNew(get_axis(RangeData(Elements(call.shape)),
                                                    call.shape, axis, index))])
    /\ UNCHANGED <<call, ret, runVars>>

\* Iter::next.  For a view of no dimensions, dimensions() - 1 panics where
\* overflow is checked; where it wraps, the first call returns the first
\* element before any axis is used and every later call indexes coords out of
\* bounds.
ViewNext ==
    /\ it.kind = "view"
    /\ ~it.panic
    /\ it.extra < MaxExtra
    /\ it' = IF NextOverflows(it.view, call.overflow_checks) THEN Panicked(it)
             ELSE IF Len(it.view.shape) = 0
             THEN IF it.st.index = 0
                  THEN Observed([it EXCEPT !.st.index = 1],
                                ViewGet(RangeData(Elements(call.shape)), it.view, 0))
                  ELSE Panicked(it)
             ELSE LET r == ViewIterNext(RangeData(Elements(call.shape)), it.view, it.st)
                  IN  Observed([it EXCEPT !.st = r.st], r.item)
    /\ UNCHANGED <<call, ret, runVars>>

NextIter == IterIndices \/ IndicesNext \/ IterAxis \/ AxisNext \/ IterView \/ ViewNext

SpecIter == InitIter /\ [][NextIter]_vars

\* The multi-index at flat position i in row-major order.
RowMajor(shape, i) == [d \in 1..Len(shape) |-> CoordOf(shape, i, d)]

\* C16: iter_indices() yields every valid multi-index exactly once in row-major
\* order, has exactly elements() items, reports before each step the number of
\* items still to come, starts afresh at every call, and after the last item
\* next() returns None forever.
C16_IterIndices ==
    /\ [](it.kind = "indices" =>
            /\ it.yielded = [k \in 1..Len(it.yielded) |-> RowMajor(call.shape, k - 1)]
            /\ Len(it.yielded) <= Elements(call.shape)
            /\ IndicesSizeHint(it) = Elements(call.shape) - Len(it.yielded)
            /\ it.nones > 0 => /\ Len(it.yielded) = Elements(call.shape)
                               /\ ~it.item.some)
    /\ [][IterIndices => (it'.yielded = <<>> /\ IndicesSizeHint(it') = Elements(call.shape))]_vars
    /\ [][IndicesNext =>
            /\ it'.item.some <=> Len(it.yielded) < Elements(call.shape)
            /\ it'.item.some => it'.item.v = RowMajor(call.shape, Len(it.yielded))
            /\ IndicesSizeHint(it') =
                   IF it'.item.some THEN IndicesSizeHint(it) - 1 ELSE 0]_vars

\* The second iterator over a 2x3 array, made after the first had yielded,
\* has yielded all six indices and then None twice.
C16_Witness ==
    /\ it.kind = "indices"
    /\ call.shape = <<2, 3>>
    /\ it.made = 2
    /\ it.yielded = <<<<0, 0>>, <<0, 1>>, <<0, 2>>, <<1, 0>>, <<1, 1>>, <<1, 2>>>>
    /\ it.nones = 2
    /\ ~it.item.some
    /\ IndicesSizeHint(it) = 0

\* C17: iter_axis(axis) yields exactly shape[axis] views, the k-th being the
\* view with the axis fixed to k, and at every point its reported length is
\* the number of views it has yet to yield.
C17_IterAxis ==
    it.kind = "axis" =>
        /\ ~it.panic
        /\ Len(it.yielded) <= call.shape[it.axis + 1]
        /\ \A k \in 1..Len(it.yielded) :
               AxisFixed(it.yielded[k], call.shape, it.axis, k - 1)
        /\ it.nones > 0 => Len(it.yielded) = call.shape[it.axis + 1]
        /\ AxisSizeHint(call.shape, it) = call.shape[it.axis + 1] - Len(it.yielded)

\* The same without the reported length.
C17_AxisViews ==
    it.kind = "axis" =>
        /\ ~it.panic
        /\ Len(it.yielded) <= call.shape[it.axis + 1]
        /\ \A k \in 1..Len(it.yielded) :
               AxisFixed(it.yielded[k], call.shape, it.axis, k - 1)
        /\ it.nones > 0 => (Len(it.yielded) = call.shape[it.axis + 1] /\ ~it.item.some)

\* Over axis 0 of a 2x3 array, after the first of the two views the reported
\* length is still 2.
C17_StaleLength ==
    /\ it.kind = "axis"
    /\ call.shape = <<2, 3>>
    /\ it.axis = 0
    /\ Len(it.yielded) = 1
    /\ it.nones = 0
    /\ AxisSizeHint(call.shape, it) = 2

\* C18: the element iterator of a view is fused: once next() has returned None
\* every later call returns None, and the reported remaining length stays 0.
C18_Fused ==
    (it.kind = "view" /\ it.nones > 0) =>
        /\ ~it.panic
        /\ ~it.item.some
        /\ ViewSizeHint(it.view, it.st, call.overflow_checks) = [kind |-> "len", n |-> 0]

\* The same for the views of one dimension.
C18_FusedLine ==
    (it.kind = "view" /\ it.nones > 0 /\ Len(it.view.shape) = 1) =>
        /\ ~it.panic
        /\ ~it.item.some
        /\ ViewSizeHint(it.view, it.st, call.overflow_checks) = [kind |-> "len", n |-> 0]

\* The 2x2 view at index 0 of axis 0 of a 2x2x2 array: after its four elements
\* and one None, next() returns an element again, and the remaining length
\* is below zero.
C18_Resumes ==
    /\ it.kind = "view"
    /\ call.shape = <<2, 2, 2>>
    /\ it.view.offset = 0
    /\ it.view.shape = <<2, 2>>
    /\ it.view.strides = <<2, 1>>
    /\ Len(it.yielded) = 5
    /\ it.nones = 1
    /\ it.item.some
    /\ ViewSizeHint(it.view, it.st, call.overflow_checks) \in
           {[kind |-> "panic"], [kind |-> "wrapped", below |-> 1]}

(***************************************************************************)
(* The population map of a list of (sample, population) pairs and its      *)
(* shape (core/src/input/sample.rs).                                       *)
(***************************************************************************)
MaxPairs == 3

\* The non-empty lists of up to MaxPairs pairs.
PairLists ==
    UNION {[1..n -> {<<sample, population>> :
                        sample \in {"s0", "s1", "s2"}, population \in {"A", "B"}}] :
              n \in 1..MaxPairs}

InitMap ==
    /\ call \in [op : {"map"}, list : PairLists]
    /\ ret = Pending
    /\ NoRun

\* Map::from_iter, then number_of_populations() and shape() of the map.
ShapeOfMap ==
    /\ call.op = "map"
    /\ ~ret.done
    /\ \E map \in {from_iter(call.list)} :
           ret' = Returned([map |-> map,
                            number_of_populations |-> number_of_populations(map),
                            shape |-> MapShape(map)])
    /\ UNCHANGED <<it, call, runVars>>

SpecMap == InitMap /\ [][ShapeOfMap]_vars

\* The population ids of a map and the number of samples it maps to an id.
IdsOf(map) == {map[i].id : i \in 1..Len(map)}
SamplesOf(map, id) == Cardinality({i \in 1..Len(map) : map[i].id = id})

\* C19: for the map of any non-empty list of pairs, number_of_populations() is
\* the number of distinct population ids in the map, deriving the shape never
\* fails, and the shape has that many dimensions, dimension p being
\* 2 * (samples of population p) + 1.
C19_MapShape ==
    (call.op = "map" /\ ret.done) =>
        /\ ret.v.number_of_populations = Cardinality(IdsOf(ret.v.map))
        /\ ~ret.v.shape.panic
        /\ Len(ret.v.shape.shape) = ret.v.number_of_populations
        /\ \A p \in 0..(ret.v.number_of_populations - 1) :
               ret.v.shape.shape[p + 1] = 2 * SamplesOf(ret.v.map, p) + 1

\* The same for the maps whose population ids are 0..n-1 without a gap, and
\* the number of populations for every map.
C19_ShapeWithoutGap ==
    (call.op = "map" /\ ret.done) =>
        /\ ret.v.number_of_populations = Cardinality(IdsOf(ret.v.map))
        /\ IdsOf(ret.v.map) = 0..(ret.v.number_of_populations - 1) =>
               /\ ~ret.v.shape.panic
               /\ Len(ret.v.shape.shape) = ret.v.number_of_populations
               /\ \A p \in 0..(ret.v.number_of_populations - 1) :
                      ret.v.shape.shape[p + 1] = 2 * SamplesOf(ret.v.map, p) + 1

\* A sample listed under population A and then under B: the map holds it with
\* population id 1 only, and the shape's look-up of id 0 fails.
C19_Panics ==
    /\ call.op = "map"
    /\ ret.done
    /\ call.list = <<<<"s0", "A">>, <<"s0", "B">>>>
    /\ ret.v.map = <<[sample |-> "s0", id |-> 1]>>
    /\ ret.v.number_of_populations = 1
    /\ ret.v.shape.panic

\* C20: projecting a count spectrum to its own shape is the identity, cell for
\* cell: the hypergeometric weight with draws = size is 1 at observed =
\* successes and 0 elsewhere.
C20_ProjectToOwnShape ==
    (call.op = "project" /\ ret.done /\ call.project_to = call.shape) =>
        /\ ret.v.ok
        /\ ret.v.spectrum.shape = call.shape
        /\ ret.v.spectrum.data = call.data
        /\ \A d \in 1..Len(call.shape) :
           \A successes, observed \in 0..(call.shape[d] - 1) :
               pmf_unchecked(call.shape[d] - 1, successes, call.shape[d] - 1, observed) =
                   IF observed = successes THEN One ELSE Zero

\* The spectrum 0, 1, .., 6 of seven cells projected to seven cells.
C20_Witness ==
    /\ call.op = "project"
    /\ ret.done
    /\ call.shape = <<7>>
    /\ call.project_to = <<7>>
    /\ call.data = RangeData(7)
    /\ ret.v.ok
    /\ ret.v.spectrum.data = RangeData(7)

(***************************************************************************)
(* Spectrum::normalize and into_normalized (core/src/spectrum.rs).  The    *)
(* quotient of two f64 is not a number for 0 / 0 and infinite for x / 0.   *)
(***************************************************************************)
NaN == <<0, 0>>
Inf == <<1, 0>>
NegInf == <<-1, 0>>

\* x / y in f64 for finite x and y.
FDiv(x, y) ==
    IF y[1] = 0
    THEN IF x[1] = 0 THEN NaN ELSE IF x[1] > 0 THEN Inf ELSE NegInf
    ELSE Rat(x[1] * y[2], x[2] * y[1])

\* x + y in f64, one or both of which may not be finite.
FAdd(x, y) ==
    IF x = NaN \/ y = NaN THEN NaN
    ELSE IF x[2] = 0 /\ y[2] = 0 THEN IF x = y THEN x ELSE NaN
    ELSE IF x[2] = 0 THEN x
    ELSE IF y[2] = 0 THEN y
    ELSE RAdd(x, y)

\* iter().sum::<f64>() over cells that may not be finite.
RECURSIVE FSumFrom(_, _, _)
FSumFrom(data, i, acc) ==
    IF i > Len(data) THEN acc ELSE FSumFrom(data, i + 1, FAdd(acc, data[i]))

\* Spectrum::normalize
normalize(data) ==
    LET total == SpectrumSum(data)
    IN  [i \in 1..Len(data) |-> FDiv(data[i], total)]

\* Spectrum::into_normalized: normalize, then the Frequencies tag.
into_normalized(data, shape) ==
    [data |-> normalize(data), shape |-> shape, state |-> "Frequencies"]

InitNormalize ==
    /\ \E shape \in Shapes :
       \E data \in DataOf(Elements(shape)) \cup {[i \in 1..Elements(shape) |-> Zero]} :
          call = [op |-> "into_normalized", shape |-> shape, data |-> data]
    /\ ret = Pending
    /\ NoRun

IntoNormalized ==
    /\ call.op = "into_normalized"
    /\ ~ret.done
    /\ ret' = Returned(into_normalized(call.data, call.shape))
    /\ UNCHANGED <<it, call, runVars>>

SpecNormalize == InitNormalize /\ [][IntoNormalized]_vars

\* Every cell is the source cell over the total of the source cells.
DividedByTotal(data, normalized) ==
    /\ Len(normalized) = Len(data)
    /\ \A i \in 1..Len(data) :
           RMul(normalized[i], SpectrumSum(data)) = data[i]

\* C21: normalize divides every cell by the total sum, so that every
\* Frequencies-tagged spectrum has cells that sum to 1, for every input count
\* spectrum.
C21_NormalizedSumsToOne ==
    (call.op = "into_normalized" /\ ret.done) =>
        /\ ret.v.state = "Frequencies"
        /\ ret.v.shape = call.shape
        /\ DividedByTotal(call.data, ret.v.data)
        /\ FSumFrom(ret.v.data, 1, Zero) = One

\* The same for the count spectra whose total is not zero.
C21_NonZeroTotal ==
    (call.op = "into_normalized" /\ ret.done /\ SpectrumSum(call.data) # Zero) =>
        /\ ret.v.state = "Frequencies"
        /\ ret.v.shape = call.shape
        /\ DividedByTotal(call.data, ret.v.data)
        /\ FSumFrom(ret.v.data, 1, Zero) = One

\* The count spectrum of three zero cells: every cell of the normalized
\* spectrum is 0 / 0.
C21_NotANumber ==
    /\ call.op = "into_normalized"
    /\ ret.done
    /\ call.shape = <<3>>
    /\ call.data = <<Zero, Zero, Zero>>
    /\ ret.v.state = "Frequencies"
    /\ ret.v.data = <<NaN, NaN, NaN>>
    /\ FSumFrom(ret.v.data, 1, Zero) = NaN

(***************************************************************************)
(* The messages of a run outside strict mode.                              *)
(***************************************************************************)
\* The reasons a site is skipped for: the one of Runner::handle_skipped_site
\* and those of ParseGenotypesError.
InsufficientReason == "missing and/or multiallelic genotypes"
SkipReasons ==
    {InsufficientReason} \cup
    {reason(error) : error \in {MissingGenotype, MissingAllele, Multiallelic, NotDiploid}}

\* The messages shown at the default verbosity: all but debug and trace.
Shown(messages) == SelectSeq(messages, LAMBDA m : m.level \in {"warn", "info"})

\* The positions in the log of the examples and of the tallies for a reason.
ExamplesFor(messages, why) ==
    {i \in 1..Len(messages) : /\ messages[i].kind = "example"
                              /\ messages[i].level \in {"warn", "info"}
                              /\ messages[i].reason = why}
TalliesFor(messages, why) ==
    {i \in 1..Len(messages) : messages[i].kind = "summary" /\ messages[i].reason = why}

\* The number of sites the runner has skipped for a reason, by its counters.
SkippedFor(config, skippedSites, tallies, why) ==
    IF config.runner = "site"
    THEN IF why = InsufficientReason THEN skippedSites ELSE 0
    ELSE IF Len(tallies) = 0 \/ why = InsufficientReason THEN 0
    ELSE tallies[(CHOOSE error \in 0..3 : reason(error) = why) + 1]

\* The step skips a site for the reason: the site runner on a site of
\* insufficient data, the runner of cli/src/create on a record whose subset of
\* genotypes fails to parse with that reason.
SkipsFor(why) ==
    /\ pc = "loop"
    /\ pc' = "loop"
    /\ pos' = pos + 1
    /\ input'.kind = "record"
    /\ IF cfg.runner = "site"
       THEN why = InsufficientReason /\ last'.site = "InsufficientData"
       ELSE /\ why # InsufficientReason
            /\ ~try_subset_from_iter(input'.genotypes, rd.sample_list).ok
            /\ reason(try_subset_from_iter(input'.genotypes, rd.sample_list).error) = why

\* C22: outside strict mode one example warning is emitted for each distinct
\* skip reason, at the first site skipped for it, however many sites are
\* skipped for it; the tally reported at the end of the run for a reason is the
\* number of sites skipped for it, and no tally is reported for a reason that
\* never occurred.
C22_OneExamplePerReason ==
    /\ [](~cfg.strict =>
            \A why \in SkipReasons :
               /\ Cardinality(ExamplesFor(log, why)) =
                      IF SkippedFor(cfg, skipped, warnings, why) > 0 THEN 1 ELSE 0
               /\ Cardinality(TalliesFor(log, why)) =
                      IF pc = "done" /\ SkippedFor(cfg, skipped, warnings, why) > 0
                      THEN 1 ELSE 0
               /\ \A i \in TalliesFor(log, why) :
                      log[i].count = SkippedFor(cfg, skipped, warnings, why))
    /\ [][~cfg.strict =>
            \A why \in SkipReasons :
               IF SkipsFor(why)
               THEN /\ SkippedFor(cfg', skipped', warnings', why) =
                           SkippedFor(cfg, skipped, warnings, why) + 1
                    /\ IF SkippedFor(cfg, skipped, warnings, why) = 0
                       THEN /\ Len(Shown(log')) = Len(Shown(log)) + 1
                            /\ Shown(log') =
                                  Append(Shown(log), Shown(log')[Len(Shown(log'))])
                            /\ Shown(log')[Len(Shown(log'))].kind = "example"
                            /\ Shown(log')[Len(Shown(log'))].reason = why
                            /\ Shown(log')[Len(Shown(log'))].site = pos
                       ELSE Shown(log') = Shown(log)
               ELSE SkippedFor(cfg', skipped', warnings', why) =
                        SkippedFor(cfg, skipped, warnings, why)]_vars

\* The site runner past the end of an input of two sites, both of them skipped
\* for the missing genotype of s0: the example for the first, a debug message
\* for the second, a trace message for the sample at each, the tally of 2.
C22_Witness ==
    /\ cfg.runner = "site"
    /\ ~cfg.strict
    /\ pc = "done"
    /\ skipped = 2
    /\ log = <<Message("info", "example", InsufficientReason, 0, 0, 0),
               Message("trace", "sample", "s0", 0, 0, 0),
               Message("debug", "site", InsufficientReason, 1, 0, 0),
               Message("trace", "sample", "s0", 1, 0, 0),
               Message("info", "summary", InsufficientReason, 0, 2, 2)>>

(***************************************************************************)
(* The mass of the spectrum the site runner accumulates.                   *)
(***************************************************************************)
\* x - y, and whether x is not below zero.
RSub(x, y) == RAdd(x, RMul(RInt(-1), y))
NonNegative(x) == x[1] >= 0

\* What the step adds to each cell of the spectrum.
Added == [i \in 1..Len(scs.data) |-> RSub(scs'.data[i], scs.data[i])]

\* The step is an iteration of the loop of the site runner that read a site.
SiteRead ==
    /\ cfg.runner = "site"
    /\ pc = "loop"
    /\ pos' = pos + 1
    /\ last'.status = "Read"

\* C23: after any prefix of the site stream the cells of the output spectrum
\* sum to the number of sites classified Standard or Projected so far (the
\* sites processed less the sites skipped): a Standard site adds 1 to the one
\* cell indexed by its count, a Projected site adds non-negative weights that
\* sum to 1, an InsufficientData site changes no cell.
C23_MassIsSitesCounted ==
    /\ []((cfg.runner = "site" /\ pc \in {"loop", "done", "error"}) =>
             SpectrumSum(scs.data) = RInt(sites - skipped))
    /\ [][SiteRead =>
            /\ scs'.shape = scs.shape
            /\ Len(scs'.data) = Len(scs.data)
            /\ last'.site = "Standard" =>
                  /\ pc' = "loop"
                  /\ \E i \in 1..Len(scs.data) :
                        /\ Added = [j \in 1..Len(scs.data) |-> IF j = i THEN One ELSE Zero]
                        /\ \A d \in 1..Len(scs.shape) :
                               CoordOf(scs.shape, i - 1, d) = rd'.counts[d]
                  /\ sites' - skipped' = (sites - skipped) + 1
            /\ last'.site = "Projected" =>
                  /\ \A i \in 1..Len(scs.data) : NonNegative(Added[i])
                  /\ SpectrumSum(Added) = One
                  /\ sites' - skipped' = (sites - skipped) + 1
            /\ last'.site = "InsufficientData" =>
                  /\ scs' = scs
                  /\ sites' - skipped' = sites - skipped]_vars

\* Two sites projected from four alleles to two: the cells sum to 2 and one
\* of them is not a whole number.
C23_Witness ==
    /\ cfg.runner = "site"
    /\ pc = "done"
    /\ rd.projection.some
    /\ sites = 2
    /\ skipped = 0
    /\ SpectrumSum(scs.data) = RInt(2)
    /\ \E i \in 1..Len(scs.data) : scs.data[i][2] > 1

(***************************************************************************)
(* What read_site reports for a site, whatever the sites before it.        *)
(***************************************************************************)
\* read_site on the same genotypes by a reader that has read nothing yet.
AsFirstSite(reader, event) ==
    read_site(new_unchecked(reader.sample_map, reader.projection), ReaderSamples,
              read_genotypes(event))

\* C24: the counts, totals and skipped samples reported for a site depend only
\* on the genotypes of that site: they are reset at the start of every
\* read_site and equal what the same site yields as the first site read.
C24_SiteAloneDecides ==
    [][(cfg.runner = "site" /\ pc = "loop" /\ pos' = pos + 1 /\ input'.kind = "record") =>
          /\ rd'.counts = AsFirstSite(rd, input').reader.counts
          /\ rd'.totals = AsFirstSite(rd, input').reader.totals
          /\ rd'.skipped_samples = AsFirstSite(rd, input').reader.skipped_samples
          /\ last'.status = AsFirstSite(rd, input').status
          /\ last'.site = AsFirstSite(rd, input').site]_vars

\* Two samples of one population without a projection: after a site of four
\* alternate alleles, a site of one alternate allele is reported with count 1
\* of total 4.
C24_Witness ==
    /\ cfg.runner = "site"
    /\ pc = "loop"
    /\ pos = 2
    /\ ~rd.projection.some
    /\ input.genotypes = <<VcfGenotype(<<0, 1>>), VcfGenotype(<<0, 0>>)>>
    /\ scs.data = <<Zero, One, Zero, Zero, One>>
    /\ rd.counts = <<1>>
    /\ rd.totals = <<4>>
    /\ rd.skipped_samples = <<>>

(***************************************************************************)
(* Samples of the input that are not in the population map.                *)
(***************************************************************************)
\* The record with the genotype of sample i replaced.
WithGenotype(event, i, genotype) == [event EXCEPT !.genotypes[i] = genotype]

\* C25: the genotype result of a sample that is not in the population map,
\* realized, skipped or hard error, changes neither counts, totals nor the
\* skipped samples, does not influence the classification of the site and does
\* not abort the read: read_site gives the same for every genotype of such a
\* sample.
C25_UnmappedIgnored ==
    [][(cfg.runner = "site" /\ pc = "loop" /\ pos' = pos + 1 /\ input'.kind = "record") =>
          \A i \in (1..Len(ReaderSamples)) \ Mapped(rd.sample_map) :
          \A genotype \in VcfGenotypes :
             \E other \in {read_site(rd, ReaderSamples,
                                     read_genotypes(WithGenotype(input', i, genotype)))} :
                /\ rd'.counts = other.reader.counts
                /\ rd'.totals = other.reader.totals
                /\ rd'.skipped_samples = other.reader.skipped_samples
                /\ last'.status = other.status
                /\ last'.site = other.site]_vars

\* Sample s1 alone is in the map; s0 has a haploid genotype and s1 is 0/1: the
\* site is read as Standard with count 1 of total 2.
C25_Witness ==
    /\ cfg.runner = "site"
    /\ pc = "loop"
    /\ cfg.samples = [some |-> TRUE, list |-> <<<<"s1", "A">>>>]
    /\ ~rd.projection.some
    /\ input.genotypes = <<VcfGenotype(<<1>>), VcfGenotype(<<0, 1>>)>>
    /\ last.status = "Read"
    /\ last.site = "Standard"
    /\ rd.counts = <<1>>
    /\ rd.totals = <<2>>
    /\ rd.skipped_samples = <<>>

(***************************************************************************)
(* Counts and totals of a site against the shape of the spectrum.          *)
(***************************************************************************)
\* The samples of the input that the map assigns to population p and whose
\* genotype in the record is realized.
RealizedIn(sample_map, genotypes, p) ==
    {i \in Mapped(sample_map) :
        /\ sample_map[EntryOf(sample_map, i)].id = p
        /\ ResultFrom(genotypes[i]).kind = "Genotype"}

\* C26: after every site and for every population p, totals[p] is twice the
\* number of realized genotypes of the samples of p, and counts[p] <= totals[p]
\* <= 2 * (samples mapped to p); the count of every site reported as Standard
\* is an in-bounds index of the spectrum of create_zero_scs, with or without a
\* projection, and the increment does not index out of bounds.
C26_CountsWithinTotals ==
    (cfg.runner = "site" /\ pc \in {"loop", "done", "error", "panic"}
        /\ input.kind = "record") =>
        /\ \A p \in 0..(Len(rd.totals) - 1) :
              /\ last.status = "Read" =>
                     rd.totals[p + 1] =
                         2 * Cardinality(RealizedIn(rd.sample_map, input.genotypes, p))
              /\ rd.counts[p + 1] <= rd.totals[p + 1]
              /\ rd.totals[p + 1] <= 2 * SamplesOf(rd.sample_map, p)
        /\ (last.status = "Read" /\ last.site = "Standard") =>
              /\ pc # "panic"
              /\ Len(rd.counts) = Len(scs.shape)
              /\ \A d \in 1..Len(scs.shape) : rd.counts[d] < scs.shape[d]

\* Two populations of one sample each, projected to two alleles each: a site
\* of genotypes 1/1 and 0/1 is Standard and counted in the last but one cell.
C26_Witness ==
    /\ cfg.runner = "site"
    /\ pc = "loop"
    /\ rd.projection.some
    /\ scs.shape = <<3, 3>>
    /\ input.genotypes = <<VcfGenotype(<<1, 1>>), VcfGenotype(<<0, 1>>)>>
    /\ last.site = "Standard"
    /\ rd.counts = <<2, 1>>
    /\ rd.totals = <<2, 2>>
    /\ scs.data[8] = One

(***************************************************************************)
(* The mirror position of fold (core/src/spectrum/folded.rs,               *)
(* Shape::index_from_flat_unchecked, Shape::index_sum_from_flat_unchecked).*)
(***************************************************************************)
InitMirror ==
    /\ \E shape \in Shapes :
       \E i \in 0..(Elements(shape) - 1) :
          call = [op |-> "mirror", shape |-> shape, i |-> i]
    /\ ret = Pending
    /\ NoRun

\* The pair (i, rev_i) of the zip of from_spectrum, the indices and the counts
\* of the two positions, and total_count.
Mirror ==
    /\ call.op = "mirror"
    /\ ~ret.done
    /\ \E r \in {rev_i(Elements(call.shape), call.i)} :
          ret' = Returned(
              [rev_i |-> r,
               index |-> index_from_flat_unchecked(call.shape, call.i),
               rev_index |-> index_from_flat_unchecked(call.shape, r),
               count |-> index_sum_from_flat_unchecked(call.shape, call.i),
               rev_count |-> index_sum_from_flat_unchecked(call.shape, r),
               total_count |-> IntSum(call.shape) - Len(call.shape)])
    /\ UNCHANGED <<it, call, runVars>>

SpecMirror == InitMirror /\ [][Mirror]_vars

\* C27: for every shape with all extents >= 1 and every flat position i, the
\* position n-1-i that fold uses as the mirror is the reversal of i in every
\* axis, index(n-1-i)[d] = shape[d]-1 - index(i)[d], hence
\* count(n-1-i) = total_count - count(i).
C27_MirrorReversesEveryAxis ==
    (call.op = "mirror" /\ ret.done) =>
        /\ ret.v.rev_i = Elements(call.shape) - 1 - call.i
        /\ Len(ret.v.rev_index) = Len(call.shape)
        /\ \A d \in 1..Len(call.shape) :
               ret.v.rev_index[d] = call.shape[d] - 1 - ret.v.index[d]
        /\ ret.v.rev_count = ret.v.total_count - ret.v.count

\* Position 1 of a 2x3 spectrum, index (0, 1), has the mirror 4, index (1, 1).
C27_Witness ==
    /\ call.op = "mirror"
    /\ ret.done
    /\ call.shape = <<2, 3>>
    /\ call.i = 1
    /\ ret.v.rev_i = 4
    /\ ret.v.index = <<0, 1>>
    /\ ret.v.rev_index = <<1, 1>>
    /\ ret.v.count = 1
    /\ ret.v.rev_count = 2
    /\ ret.v.total_count = 3

(***************************************************************************)
(* The elements a view yields.                                             *)
(***************************************************************************)
\* The flat positions of the array whose coordinate along the axis is the
\* index, in increasing order, which is the row-major order of the other
\* coordinates.
RECURSIVE PositionsFrom(_, _, _, _)
PositionsFrom(shape, axis, index, flat) ==
    IF flat >= Elements(shape) THEN <<>>
    ELSE (IF CoordOf(shape, flat, axis + 1) = index THEN <<flat>> ELSE <<>>)
         \o PositionsFrom(shape, axis, index, flat + 1)

\* The elements of the array at these positions.
ElementsAt(data, shape, axis, index) ==
    [k \in 1..Len(PositionsFrom(shape, axis, index, 0)) |->
        data[PositionsFrom(shape, axis, index, 0)[k] + 1]]

\* The iterator has yielded the first elements of the view and reports the
\* number of those to come; when it has returned None it had yielded all.
YieldsTheView ==
    LET expected == ElementsAt(RangeData(Elements(call.shape)), call.shape, it.axis, it.at)
    IN  /\ ~it.panic
        /\ Len(expected) * call.shape[it.axis + 1] = Elements(call.shape)
        /\ it.nones = 0 =>
              /\ Len(it.yielded) <= Len(expected)
              /\ it.yielded = SubSeq(expected, 1, Len(it.yielded))
              /\ ViewSizeHint(it.view, it.st, call.overflow_checks) =
                     [kind |-> "len", n |-> Len(expected) - Len(it.yielded)]
        /\ (it.nones = 1 /\ it.extra = 0) => it.yielded = expected

\* C28: for every array and every in-bounds (axis, index), iterating the view
\* get_axis(axis, index) yields the elements of the array whose coordinate
\* along the axis is the index, each once, in row-major order of the other
\* coordinates; their number is the product of the other extents, and the
\* remaining length reported before each step is the number still to come.
C28_ViewYieldsItsElements ==
    it.kind = "view" => YieldsTheView

\* The same for the arrays of two or more dimensions.
C28_ViewOfSeveralAxes ==
    (it.kind = "view" /\ Len(call.shape) >= 2) => YieldsTheView

\* The view at index 1 of the one axis of an array of three elements, where
\* overflow is checked: the first next() panics.
C28_Panics ==
    /\ it.kind = "view"
    /\ call.shape = <<3>>
    /\ call.overflow_checks
    /\ it.at = 1
    /\ it.view.shape = <<>>
    /\ it.calls = 1
    /\ it.yielded = <<>>
    /\ it.panic

(***************************************************************************)
(* The mass of a folded spectrum.                                          *)
(***************************************************************************)
\* C29: folding with fill value 0 conserves the total mass: for every spectrum
\* of every shape the cells of fold().into_spectrum(0) sum to what the cells
\* of the source sum to.
C29_FoldConservesMass ==
    (call.op = "fold" /\ ret.done /\ call.fill = Zero) =>
        /\ Len(ret.v) = Len(call.data)
        /\ SpectrumSum(ret.v) = SpectrumSum(call.data)

\* The 3x3 range spectrum, of sum 36, folded with fill 0: the diagonal cells
\* (0,2), (1,1), (2,0) hold 4 each, the cells above it 8, and the sum is 36.
C29_Witness ==
    /\ call.op = "fold"
    /\ ret.done
    /\ call.shape = <<3, 3>>
    /\ call.data = RangeData(9)
    /\ call.fill = Zero
    /\ ret.v = <<RInt(8), RInt(8), RInt(4), RInt(8), RInt(4), Zero, RInt(4), Zero, Zero>>
    /\ SpectrumSum(ret.v) = RInt(36)

(***************************************************************************)
(* From a call of the genotype input to a genotype result                  *)
(* (core/src/input/genotype/reader/vcf.rs, cli/src/create/genotypes.rs).   *)
(***************************************************************************)
\* The largest allele index, and the largest number of alleles, of a call.
MaxAllele == 2
MaxPloidy == 3

\* An absent call, and the calls of one to MaxPloidy alleles, each missing
\* (-1), reference (0) or an alternate allele.
Calls ==
    {NoGenotype} \cup
    {VcfGenotype(alleles) : alleles \in UNION {[1..n -> -1..MaxAllele] : n \in 1..MaxPloidy}}

InitGenotype ==
    /\ call \in [op : {"genotype"}, genotype : Calls]
    /\ ret = Pending
    /\ NoRun

\* genotype::Result::from(call), and Genotype::try_from(call) of the runner of
\* cli/src/create.
Convert ==
    /\ call.op = "genotype"
    /\ ~ret.done
    /\ ret' = Returned([result |-> ResultFrom(call.genotype),
                        parsed |-> try_from(call.genotype)])
    /\ UNCHANGED <<it, call, runVars>>

SpecGenotype == InitGenotype /\ [][Convert]_vars

\* The number of copies of an allele other than the reference in a call.
NonReference(alleles) == Cardinality({i \in 1..Len(alleles) : alleles[i] >= 1})

\* What the call is to be converted to.
Converted(genotype, result) ==
    IF ~genotype.some THEN result = SkippedResult("Missing")
    ELSE IF Len(genotype.alleles) # 2 THEN result = ErrorResult("PloidyError")
    ELSE IF \E i \in 1..2 : genotype.alleles[i] < 0 THEN result = SkippedResult("Missing")
    ELSE IF \E i \in 1..2 : genotype.alleles[i] >= 2
    THEN result = SkippedResult("Multiallelic")
    ELSE result = GenotypeResult(NonReference(genotype.alleles))

\* C30: a call of two present alleles that are both the reference or the first
\* alternate is realized with the number of copies that are not the reference
\* as its dosage; a diploid call with an allele of index >= 2 is skipped as
\* multiallelic; a call with a missing allele, or an absent call, is skipped
\* as missing; a call that has not two alleles is a ploidy error.
C30_CallToResult ==
    (call.op = "genotype" /\ ret.done) => Converted(call.genotype, ret.v.result)

\* The same for the calls other than 0/2 and 2/0.
C30_ExceptReferenceWithSecond ==
    (call.op = "genotype" /\ ret.done
        /\ call.genotype \notin {VcfGenotype(<<0, 2>>), VcfGenotype(<<2, 0>>)}) =>
        Converted(call.genotype, ret.v.result)

\* The call 0/2, one copy of the second alternate allele, is realized with
\* dosage 2 by both conversions.
C30_TwoForOneCopy ==
    /\ call.op = "genotype"
    /\ ret.done
    /\ call.genotype = VcfGenotype(<<0, 2>>)
    /\ ret.v.result = GenotypeResult(2)
    /\ ret.v.parsed = ParsedGenotype(2)

====
